---------------------------- MODULE Spec2Model ----------------------------
(***************************************************************************)
(* A model of NonprofitDataGenerator (src/generate_data.py): the synthetic *)
(* donor data generator.  Each generation stage is a method that loops     *)
(* over its input and draws from random sources; the model keeps the       *)
(* method's name in pc while it runs and has one action per loop           *)
(* iteration, with every random draw an existential choice.                *)
(*                                                                         *)
(* Dates are day numbers, day 0 being 2021-01-01.  Money is an integer     *)
(* number of units of 1/10000 dollar (1/100 cent), so that a cent-rounded  *)
(* amount times a volume multiplier in tenths times 0.7 is still exact.    *)
(* Fields that no generation stage reads back (names, e-mail, phone,       *)
(* address, goal amounts, descriptions) are left out of the records.       *)
(***************************************************************************)
EXTENDS Integers, Sequences, FiniteSets, TLC

VARIABLES
    pc,                \* the method that is running, or "idle"
    done,              \* the methods that have returned, in call order
    config,            \* the constructor's arguments
    now,               \* datetime.now().date(), the day the run happens
    funds,             \* self.funds: the fund ids
    constituents,      \* self.constituents
    donor_segments,    \* self.donor_segments: constituent id -> segment
    gc,                \* locals of generate_constituents and create_donor_segments
    households,        \* self.households
    hh,                \* locals of generate_households
    cg,                \* locals of generate_campaigns
    campaigns,         \* self.campaigns
    campaign_funds,    \* self.campaign_funds
    ap,                \* locals of generate_appeals
    appeals,           \* self.appeals
    transactions,      \* self.transactions
    tx,                \* locals of generate_transactions
    pledges,           \* self.pledges
    pledge_payments,   \* self.pledge_payments
    pl,                \* locals of generate_pledges
    twin,              \* self.constituents of a second run with the same seed
    has_pledges,       \* self has the attributes pledges and pledge_payments
    dm                 \* locals of generate_donor_metrics

vars == <<pc, done, config, now, funds, constituents, donor_segments, gc, households,
          hh, cg, campaigns, campaign_funds, ap, appeals, transactions, tx, pledges,
          pledge_payments, pl, twin, has_pledges, dm>>

-----------------------------------------------------------------------------
(* Bounds of the model. *)

\* constituents generated by one generate_constituents call
NumConstituents == 2
\* constituents generated in the specification of the household stage
NumHouseholdConstituents == 4

-----------------------------------------------------------------------------
(* Helpers. *)

None == -1

Min(a, b) == IF a < b THEN a ELSE b

Max(a, b) == IF a > b THEN a ELSE b

Range(s) == {s[i] : i \in DOMAIN s}

Last(s) == IF Len(s) = 0 THEN "" ELSE s[Len(s)]

RECURSIVE SumSeq(_)
SumSeq(s) == IF Len(s) = 0 THEN 0 ELSE s[1] + SumSeq(Tail(s))

-----------------------------------------------------------------------------
(* The calendar: datetime.date arithmetic on day numbers. *)

EpochYear == 2021

IsLeap(y) == y % 4 = 0 /\ (y % 100 # 0 \/ y % 400 = 0)

DaysInYear(y) == IF IsLeap(y) THEN 366 ELSE 365

MonthLengths(y) ==
    <<31, IF IsLeap(y) THEN 29 ELSE 28, 31, 30, 31, 30, 31, 31, 30, 31, 30, 31>>

RECURSIVE DaysBeforeYear(_)
DaysBeforeYear(y) ==
    IF y <= EpochYear THEN 0 ELSE DaysBeforeYear(y - 1) + DaysInYear(y - 1)

RECURSIVE DaysBeforeMonth(_, _)
DaysBeforeMonth(y, m) ==
    IF m <= 1 THEN 0 ELSE DaysBeforeMonth(y, m - 1) + MonthLengths(y)[m - 1]

\* datetime(y, m, d).date()
DateOf(y, m, d) == DaysBeforeYear(y) + DaysBeforeMonth(y, m) + (d - 1)

RECURSIVE YearFrom(_, _)
YearFrom(y, d) == IF d < DaysInYear(y) THEN y ELSE YearFrom(y + 1, d - DaysInYear(y))

\* date.year
YearOf(d) == YearFrom(EpochYear, d)

RECURSIVE MonthFrom(_, _, _)
MonthFrom(y, m, d) ==
    IF d < MonthLengths(y)[m] THEN m ELSE MonthFrom(y, m + 1, d - MonthLengths(y)[m])

\* date.month
MonthOf(d) == MonthFrom(YearOf(d), 1, d - DaysBeforeYear(YearOf(d)))

-----------------------------------------------------------------------------
(* Construction. *)

DefaultStartDate == DateOf(2021, 1, 1)

DefaultEndDate == DateOf(2024, 12, 31)

\* The constructor's arguments: volume multiplier in tenths, fractions in percent.
Config(n, vol10, orgPct, pledgePct) ==
    [start_date |-> DefaultStartDate,
     end_date |-> DefaultEndDate,
     num_constituents |-> n,
     transaction_volume_multiplier |-> vol10,
     organization_percentage |-> orgPct,
     pledge_percentage |-> pledgePct]

NoGC == [generated |-> 0, segmented |-> 0]

NoHH == [i |-> 0, household_id |-> 0, households |-> <<>>, assigned_constituents |-> {}]

NoCG == [campaigns |-> <<>>, campaign_fund_mappings |-> <<>>, campaign_id |-> 0]

NoAP == [appeals |-> <<>>, appeal_id |-> 0, campaign |-> 0]

NoTx == [transactions |-> <<>>, transaction_id |-> 0, appeal |-> 0, response_rate |-> 0,
         num_donors |-> 0, appeal_donors |-> <<>>, num_gifts |-> 0, gift_num |-> 0]

NoDM == [donor_metrics |-> <<>>, constituent |-> 0]

NoPl == [pledges |-> <<>>, pledge_payments |-> <<>>, pledge_id |-> 0, payment_id |-> 0,
         pledge_donors |-> <<>>]

\* NonprofitDataGenerator.__init__
InitWith(cfg, today) ==
    /\ pc = "idle"
    /\ done = <<>>
    /\ config = cfg
    /\ now = today
    /\ funds = <<>>
    /\ constituents = <<>>
    /\ donor_segments = <<>>
    /\ gc = NoGC
    /\ households = <<>>
    /\ hh = NoHH
    /\ cg = NoCG
    /\ campaigns = <<>>
    /\ campaign_funds = <<>>
    /\ ap = NoAP
    /\ appeals = <<>>
    /\ transactions = <<>>
    /\ tx = NoTx
    /\ pledges = <<>>
    /\ pledge_payments = <<>>
    /\ pl = NoPl
    /\ twin = <<>>
    /\ has_pledges = FALSE
    /\ dm = NoDM

-----------------------------------------------------------------------------
(* generate_funds *)

FundIds == <<1, 2, 3, 4, 5, 6, 7, 8>>

GenerateFunds ==
    /\ pc = "idle"
    /\ done = <<>>
    /\ funds' = FundIds
    /\ done' = Append(done, "generate_funds")
    /\ UNCHANGED <<pc, config, now, constituents, donor_segments, gc, households, hh,
                   cg, campaigns, campaign_funds, ap, appeals, transactions, tx, pledges,
                   pledge_payments, pl, twin,
                   has_pledges, dm>>

-----------------------------------------------------------------------------
(* generate_constituents, generate_constituent, create_donor_segments *)

Genders == {"F", "M", "NB"}

\* int(num_constituents * self.organization_percentage)
NumOrganizations(n) == (n * config.organization_percentage) \div 100

\* generate_constituent: the record appended to self.constituents.  gender is the
\* np.random.choice draw, creation_date the fake.date_between draw.
NewConstituent(list, is_organization, gender, creation_date) ==
    [constituent_id |-> Len(list) + 1,
     type |-> IF is_organization THEN "Organization" ELSE "Individual",
     gender |-> IF is_organization THEN "None" ELSE gender,
     creation_date |-> creation_date,
     lifetime_giving |-> 0,
     first_gift_date |-> None,
     last_gift_date |-> None]

CallGenerateConstituents ==
    /\ pc = "idle"
    /\ Last(done) = "generate_funds"
    /\ pc' = "generate_constituents"
    /\ gc' = NoGC
    /\ UNCHANGED <<done, config, now, funds, constituents, donor_segments, households,
                   hh, cg, campaigns, campaign_funds, ap, appeals, transactions, tx, pledges,
                   pledge_payments, pl, twin,
                   has_pledges, dm>>

\* One iteration of the two loops of generate_constituents: the organizations
\* first, then the individuals.
GenerateConstituent(genders, dates) ==
    /\ pc = "generate_constituents"
    /\ gc.generated < config.num_constituents
    /\ \E gender \in genders, creation_date \in dates :
          /\ creation_date \in config.start_date .. config.end_date
          /\ constituents' =
                Append(constituents,
                       NewConstituent(constituents,
                                      gc.generated < NumOrganizations(config.num_constituents),
                                      gender, creation_date))
    /\ gc' = [gc EXCEPT !.generated = @ + 1]
    /\ UNCHANGED <<pc, done, config, now, funds, donor_segments, households, hh,
                   cg, campaigns, campaign_funds, ap, appeals, transactions, tx, pledges,
                   pledge_payments, pl, twin,
                   has_pledges, dm>>

Frequencies == {"One-time", "Occasional", "Regular", "Loyal"}

Levels == {"Small", "Medium", "Major", "Principal"}

Trends == {"Decreasing", "Stable", "Increasing"}

\* random.sample([f['fund_id'] for f in self.funds], k=2): two distinct funds, in order
CauseAffinities == {<<a, b>> : a \in Range(funds), b \in Range(funds)} \ {<<a, a>> : a \in Range(funds)}

\* One iteration of the loop of create_donor_segments, which generate_constituents
\* runs over the whole of self.constituents before it returns.
CreateDonorSegment(frequencies, levels, trends, affinities) ==
    /\ pc = "generate_constituents"
    /\ gc.generated = config.num_constituents
    /\ gc.segmented < Len(constituents)
    /\ \E frequency \in frequencies, level \in levels, giving_trend \in trends,
          cause_affinity \in CauseAffinities \cap affinities :
          donor_segments' =
                (constituents[gc.segmented + 1].constituent_id :>
                    [frequency |-> frequency, level |-> level,
                     giving_trend |-> giving_trend, cause_affinity |-> cause_affinity])
                @@ donor_segments
    /\ gc' = [gc EXCEPT !.segmented = @ + 1]
    /\ UNCHANGED <<pc, done, config, now, funds, constituents, households, hh,
                   cg, campaigns, campaign_funds, ap, appeals, transactions, tx, pledges,
                   pledge_payments, pl, twin,
                   has_pledges, dm>>

GenerateConstituentsReturn ==
    /\ pc = "generate_constituents"
    /\ gc.generated = config.num_constituents
    /\ gc.segmented = Len(constituents)
    /\ pc' = "idle"
    /\ done' = Append(done, "generate_constituents")
    /\ UNCHANGED <<config, now, funds, constituents, donor_segments, gc, households, hh,
                   cg, campaigns, campaign_funds, ap, appeals, transactions, tx, pledges,
                   pledge_payments, pl, twin,
                   has_pledges, dm>>

-----------------------------------------------------------------------------
(* generate_households, get_formal_name *)

\* individual_constituents = [c for c in self.constituents if c['type'] == 'Individual']
IndividualConstituents == SelectSeq(constituents, LAMBDA c : c.type = "Individual")

PartnerWindow == 10

SameGenderWindow == 20

\* the record of a household's primary member
PrimaryRecord(household_id, name, constituent) ==
    [household_id |-> household_id,
     name |-> name,
     constituent_id |-> constituent.constituent_id,
     primary_constituent_id |-> constituent.constituent_id,
     is_primary |-> TRUE,
     creation_date |-> constituent.creation_date]

MemberRecordAsPrimary(household_id, name, member, constituent) ==
    [household_id |-> household_id,
     name |-> name,
     constituent_id |-> member.constituent_id,
     primary_constituent_id |-> member.constituent_id,
     is_primary |-> TRUE,
     creation_date |-> constituent.creation_date]

\* the record of a partner or an additional member of constituent's household
MemberRecord(household_id, name, member, constituent) ==
    [household_id |-> household_id,
     name |-> name,
     constituent_id |-> member.constituent_id,
     primary_constituent_id |-> constituent.constituent_id,
     is_primary |-> FALSE,
     creation_date |-> constituent.creation_date]

PotentialPartnersAnyone(i, assigned) ==
    {j \in i + 1 .. Min(i + PartnerWindow - 1, Len(IndividualConstituents)) : TRUE}

\* the unassigned individuals among the next 9 (indices from 1)
PotentialPartners(i, assigned) ==
    {j \in i + 1 .. Min(i + PartnerWindow - 1, Len(IndividualConstituents)) :
        j \notin assigned}

\* the unassigned individuals of the same gender among the next 19
SameGenderPartners(i, assigned) ==
    {j \in i + 1 .. Min(i + SameGenderWindow - 1, Len(IndividualConstituents)) :
        /\ j \notin assigned
        /\ IndividualConstituents[j].gender = IndividualConstituents[i].gender}

\* the partner once the same-sex re-search has run
PartnerChoices(i, first_choice, same_sex_couple, assigned) ==
    IF /\ same_sex_couple
       /\ IndividualConstituents[i].gender # IndividualConstituents[first_choice].gender
       /\ SameGenderPartners(i, assigned) # {}
    THEN SameGenderPartners(i, assigned)
    ELSE {first_choice}

\* the forms a couple's household name can take
CoupleNames(same_sex_couple, g1, g2) ==
    {"A B & C D", "A & C B"} \cup
    (IF ~same_sex_couple /\ ((g1 = "M" /\ g2 = "F") \/ (g1 = "F" /\ g2 = "M"))
     THEN {"Mr. & Mrs. A B"} ELSE {})

\* get_formal_name: the title the name starts with
FormalNames(gender) ==
    IF gender = "F" THEN {"Ms.", "Mrs.", "Miss"}
    ELSE IF gender = "M" THEN {"Mr."} ELSE {"Mx."}

\* The while loop that adds up to additional_members unassigned individuals
\* found from search_idx on: the locals after it.
RECURSIVE AddMembers(_, _, _, _, _, _)
AddMembers(h, search_idx, members_added, additional_members, name, constituent) ==
    IF members_added < additional_members /\ search_idx <= Len(IndividualConstituents)
    THEN IF search_idx \notin h.assigned_constituents
         THEN AddMembers(
                  [h EXCEPT !.households =
                                Append(@, MemberRecord(h.household_id, name,
                                                       IndividualConstituents[search_idx],
                                                       constituent)),
                            !.assigned_constituents = @ \cup {search_idx}],
                  search_idx + 1, members_added + 1, additional_members, name, constituent)
         ELSE AddMembers(h, search_idx + 1, members_added, additional_members, name,
                         constituent)
    ELSE h

\* the locals after individual i has founded a household with partner_idx
CoupleHousehold(h, i, partner_idx, name, additional_members) ==
    LET constituent == IndividualConstituents[i]
        partner == IndividualConstituents[partner_idx]
        paired == [h EXCEPT
                     !.households =
                         @ \o <<PrimaryRecord(h.household_id, name, constituent),
                                MemberRecord(h.household_id, name, partner, constituent)>>,
                     !.assigned_constituents = @ \cup {i, partner_idx}]
        filled == AddMembers(paired, Max(i, partner_idx) + 1, 0, additional_members,
                             name, constituent)
    IN  [filled EXCEPT !.household_id = @ + 1]

\* the locals after individual i has become a single-person household
SingleHousehold(h, i, name) ==
    [h EXCEPT !.households = Append(@, PrimaryRecord(h.household_id, name,
                                                     IndividualConstituents[i])),
              !.assigned_constituents = @ \cup {i},
              !.household_id = @ + 1]

\* The final loop: a single-person household for every individual the pairing
\* loop left unassigned (the title of its name is one of those get_formal_name
\* can draw).
RECURSIVE FinalSweep(_, _)
FinalSweep(h, i) ==
    IF i > Len(IndividualConstituents) THEN h
    ELSE IF i \notin h.assigned_constituents
         THEN FinalSweep([h EXCEPT !.households =
                                      Append(@, PrimaryRecord(h.household_id,
                                                 CHOOSE name \in FormalNames(IndividualConstituents[i].gender) : TRUE,
                                                 IndividualConstituents[i])),
                                   !.household_id = @ + 1],
                         i + 1)
         ELSE FinalSweep(h, i + 1)

CallGenerateHouseholds ==
    /\ pc = "idle"
    /\ Last(done) = "generate_constituents"
    /\ pc' = "generate_households"
    /\ hh' = [i |-> 1, household_id |-> 1, households |-> <<>>,
              assigned_constituents |-> {}]
    /\ UNCHANGED <<done, config, now, funds, constituents, donor_segments, gc,
                   households, cg, campaigns, campaign_funds, ap, appeals, transactions, tx,
                   pledges, pledge_payments, pl, twin,
                   has_pledges, dm>>

\* One iteration of the pairing loop.
GenerateHouseholdsStep ==
    /\ pc = "generate_households"
    /\ hh.i <= Len(IndividualConstituents)
    /\ LET i == hh.i
           constituent == IndividualConstituents[i]
           assigned == hh.assigned_constituents
       IN  IF i \in assigned
           THEN hh' = [hh EXCEPT !.i = i + 1]
           ELSE \E multi_person \in BOOLEAN :
                   IF multi_person /\ PotentialPartners(i, assigned) # {}
                   THEN \E first_choice \in PotentialPartners(i, assigned),
                           same_sex_couple \in BOOLEAN, additional_members \in 0 .. 3 :
                           \E partner_idx \in PartnerChoices(i, first_choice,
                                                             same_sex_couple, assigned) :
                              \E name \in CoupleNames(same_sex_couple, constituent.gender,
                                                      IndividualConstituents[partner_idx].gender) :
                                 hh' = [CoupleHousehold(hh, i, partner_idx, name,
                                                        additional_members)
                                        EXCEPT !.i = i + 1]
                   ELSE \E name \in FormalNames(constituent.gender) :
                           hh' = [SingleHousehold(hh, i, name) EXCEPT !.i = i + 1]
    /\ UNCHANGED <<pc, done, config, now, funds, constituents, donor_segments, gc,
                   households, cg, campaigns, campaign_funds, ap, appeals, transactions, tx,
                   pledges, pledge_payments, pl, twin,
                   has_pledges, dm>>

\* The final sweep, self.households = households, and the return.
GenerateHouseholdsReturn ==
    /\ pc = "generate_households"
    /\ hh.i > Len(IndividualConstituents)
    /\ hh' = FinalSweep(hh, 1)
    /\ households' = hh'.households
    /\ pc' = "idle"
    /\ done' = Append(done, "generate_households")
    /\ UNCHANGED <<config, now, funds, constituents, donor_segments, gc, cg, campaigns,
                   campaign_funds, ap, appeals, transactions, tx, pledges, pledge_payments,
                   pl, twin,
                   has_pledges, dm>>

-----------------------------------------------------------------------------
(* The household stage on its own: funds, constituents, households. *)

HouseholdConfigs == {Config(NumHouseholdConstituents, 10, orgPct, 12) : orgPct \in {0, 25}}

InitHouseholds == \E cfg \in HouseholdConfigs : InitWith(cfg, DefaultEndDate)

NextHouseholds ==
    \/ GenerateFunds
    \/ CallGenerateConstituents
    \/ GenerateConstituent(Genders, {DefaultStartDate})
    \/ CreateDonorSegment({"One-time"}, {"Small"}, {"Stable"}, {<<1, 2>>})
    \/ GenerateConstituentsReturn
    \/ CallGenerateHouseholds
    \/ GenerateHouseholdsStep
    \/ GenerateHouseholdsReturn

SpecHouseholds == InitHouseholds /\ [][NextHouseholds]_vars

\* the household stage has returned
HouseholdsGenerated == "generate_households" \in Range(done)

\* the membership records of household id h
RecordsOf(h) == {k \in DOMAIN households : households[k].household_id = h}

\* the membership records of constituent id c
RecordsFor(c) == {k \in DOMAIN households : households[k].constituent_id = c}

\* C4: generate_households partitions the individuals: every Individual has
\* exactly one membership record, no Organization has any, every household id
\* handed out has a member, and there are as many records as individuals.
C4_HouseholdPartition ==
    HouseholdsGenerated =>
        /\ \A k \in DOMAIN constituents :
              Cardinality(RecordsFor(constituents[k].constituent_id)) =
                  IF constituents[k].type = "Individual" THEN 1 ELSE 0
        /\ \A h \in 1 .. hh.household_id - 1 : RecordsOf(h) # {}
        /\ \A k \in DOMAIN households : households[k].household_id \in 1 .. hh.household_id - 1
        /\ Len(households) = Len(IndividualConstituents)

\* a household of a couple and an additional member, beside an organization
C4_Witness ==
    /\ HouseholdsGenerated
    /\ \E h \in 1 .. hh.household_id - 1 : Cardinality(RecordsOf(h)) >= 3
    /\ \E k \in DOMAIN constituents : constituents[k].type = "Organization"

\* C5: every household id has exactly one record flagged is_primary, and every
\* record of the household names that member as primary_constituent_id.
C5_OnePrimary ==
    HouseholdsGenerated =>
        \A h \in 1 .. hh.household_id - 1 :
            /\ Cardinality({k \in RecordsOf(h) : households[k].is_primary}) = 1
            /\ \A k \in RecordsOf(h), p \in RecordsOf(h) :
                  households[p].is_primary =>
                      households[k].primary_constituent_id = households[p].constituent_id

\* a household of several members, one of them the primary
C5_Witness ==
    /\ HouseholdsGenerated
    /\ \E h \in 1 .. hh.household_id - 1 :
          /\ Cardinality(RecordsOf(h)) >= 2
          /\ \E k \in RecordsOf(h) : ~households[k].is_primary

-----------------------------------------------------------------------------
(* generate_campaigns *)

\* campaigns generated by one generate_campaigns call (the catalogue holds 24)
NumCampaigns == 1

\* the campaign types of the campaign_types catalogue
CampaignTypes == {"Annual", "Capital", "Special", "Program", "Event"}

\* campaign_fund_affinities.get(campaign_type, [1])
RelevantFunds(campaign_type) ==
    CASE campaign_type = "Annual" -> <<1, 8>>
      [] campaign_type = "Capital" -> <<2, 8>>
      [] campaign_type = "Special" -> <<3, 4, 7>>
      [] campaign_type = "Program" -> <<5, 6>>
      [] campaign_type = "Event" -> <<1, 3, 4, 5>>
      [] OTHER -> <<1>>

\* the campaign's length in days
CampaignDays(campaign_type) ==
    CASE campaign_type = "Annual" -> 365
      [] campaign_type = "Capital" -> 730
      [] OTHER -> 180

\* random.sample(population, k): the sequences of k distinct members
Samples(population, k) ==
    {q \in [1 .. k -> Range(population)] : \A a, b \in 1 .. k : a # b => q[a] # q[b]}

\* the weight that stands for 1.0: weights are kept in hundredths
WeightOne == 100

AscendingWeights(num_funds) == SubSeq(<<10, 20, 70>>, 1, Min(num_funds, 3))

\* weights = [0.7, 0.2, 0.1][:num_funds], extended by 0.1/remaining each when shorter
CampaignWeights(num_funds) ==
    LET weights == SubSeq(<<70, 20, 10>>, 1, Min(num_funds, 3))
        remaining == num_funds - Len(weights)
    IN  IF Len(weights) < num_funds
        THEN weights \o [i \in 1 .. remaining |-> 10 \div remaining]
        ELSE weights

\* the campaign_funds rows of one campaign: the first fund selected is primary
CampaignFundRows(campaign_id, selected_funds, weights) ==
    [i \in 1 .. Len(selected_funds) |->
        [campaign_id |-> campaign_id,
         fund_id |-> selected_funds[i],
         weight |-> weights[i],
         is_primary |-> i = 1]]

CallGenerateCampaigns(after) ==
    /\ pc = "idle"
    /\ Last(done) = after
    /\ pc' = "generate_campaigns"
    /\ cg' = [campaigns |-> <<>>, campaign_fund_mappings |-> <<>>, campaign_id |-> 1]
    /\ UNCHANGED <<done, config, now, funds, constituents, donor_segments, gc,
                   households, hh, campaigns, campaign_funds, ap, appeals,
                   transactions, tx, pledges, pledge_payments, pl, twin,
                   has_pledges, dm>>

\* One iteration of the loop over the catalogue.  The model generates NumCampaigns
\* campaigns, each of any type the catalogue holds; starts are the dates
\* fake.date_between may return and randints the values random.randint(1, 3) may.
GenerateCampaign(types, starts, randints) ==
    /\ pc = "generate_campaigns"
    /\ cg.campaign_id <= NumCampaigns
    /\ \E campaign_type \in types \cap CampaignTypes, start_date \in starts,
          randint \in randints \cap 1 .. 3 :
          LET relevant_funds == RelevantFunds(campaign_type)
              num_funds == Min(Len(relevant_funds), randint)
          IN  /\ start_date \in config.start_date ..
                                config.end_date - CampaignDays(campaign_type)
              /\ \E sample \in Samples(relevant_funds, num_funds) :
                    LET selected_funds == IF sample = <<>> THEN <<1>> ELSE sample
                    IN  cg' = [campaigns |->
                                   Append(cg.campaigns,
                                          [campaign_id |-> cg.campaign_id,
                                           type |-> campaign_type,
                                           start_date |-> start_date,
                                           end_date |-> start_date + CampaignDays(campaign_type)]),
                               campaign_fund_mappings |->
                                   cg.campaign_fund_mappings \o
                                   CampaignFundRows(cg.campaign_id, selected_funds,
                                                    CampaignWeights(num_funds)),
                               campaign_id |-> cg.campaign_id + 1]
    /\ UNCHANGED <<pc, done, config, now, funds, constituents, donor_segments, gc,
                   households, hh, campaigns, campaign_funds, ap, appeals,
                   transactions, tx, pledges, pledge_payments, pl, twin,
                   has_pledges, dm>>

\* self.campaigns = campaigns, self.campaign_funds = campaign_fund_mappings, return
GenerateCampaignsReturn ==
    /\ pc = "generate_campaigns"
    /\ cg.campaign_id > NumCampaigns
    /\ campaigns' = cg.campaigns
    /\ campaign_funds' = cg.campaign_fund_mappings
    /\ pc' = "idle"
    /\ done' = Append(done, "generate_campaigns")
    /\ UNCHANGED <<config, now, funds, constituents, donor_segments, gc, households,
                   hh, cg, ap, appeals, transactions, tx, pledges, pledge_payments,
                   pl, twin,
                   has_pledges, dm>>

-----------------------------------------------------------------------------
(* The campaign stage on its own: funds, campaigns. *)

\* dates a campaign of every type can start on
CampaignStarts == {DateOf(2021, 3, 1), DateOf(2022, 9, 15)}

InitCampaigns == InitWith(Config(NumConstituents, 10, 0, 12), DefaultEndDate)

NextCampaigns ==
    \/ GenerateFunds
    \/ CallGenerateCampaigns("generate_funds")
    \/ GenerateCampaign(CampaignTypes, CampaignStarts, 1 .. 3)
    \/ GenerateCampaignsReturn

SpecCampaigns == InitCampaigns /\ [][NextCampaigns]_vars

\* the campaign stage has returned
CampaignsGenerated == "generate_campaigns" \in Range(done)

\* the campaign_funds rows of campaign id c
FundRowsOf(c) == {k \in DOMAIN campaign_funds : campaign_funds[k].campaign_id = c}

RECURSIVE SumWeights(_)
SumWeights(rows) ==
    IF rows = {} THEN 0
    ELSE LET k == CHOOSE k \in rows : TRUE
         IN  campaign_funds[k].weight + SumWeights(rows \ {k})

\* C7: the weights of every campaign's campaign_funds rows sum to 1.0, whether
\* the campaign was given 1, 2 or 3 funds.
C7_WeightsSumToOne ==
    CampaignsGenerated =>
        \A k \in DOMAIN campaigns :
            SumWeights(FundRowsOf(campaigns[k].campaign_id)) = WeightOne

\* C8: every campaign has exactly one campaign_funds row flagged is_primary, and
\* that row's weight is strictly greater than every other row's of the campaign.
C8_OnePrimaryHeaviest ==
    CampaignsGenerated =>
        \A k \in DOMAIN campaigns :
            LET rows == FundRowsOf(campaigns[k].campaign_id)
            IN  /\ Cardinality({r \in rows : campaign_funds[r].is_primary}) = 1
                /\ \A r \in rows, o \in rows :
                      campaign_funds[r].is_primary /\ o # r =>
                          campaign_funds[r].weight > campaign_funds[o].weight

\* a campaign of three funds: one primary row and two lighter ones
C8_Witness ==
    /\ CampaignsGenerated
    /\ \E k \in DOMAIN campaigns :
          LET rows == FundRowsOf(campaigns[k].campaign_id)
          IN  /\ Cardinality(rows) = 3
              /\ \E r \in rows : ~campaign_funds[r].is_primary

-----------------------------------------------------------------------------
(* generate_appeals *)

\* appeal_type_mapping.get(campaign['type'], ['Direct Mail', 'Email Campaign'])
RelevantAppealTypes(campaign_type) ==
    CASE campaign_type = "Annual" ->
             {"Direct Mail", "Email Campaign", "Phone-a-thon", "Giving Tuesday",
              "Monthly Giving Program"}
      [] campaign_type = "Capital" ->
             {"Major Donor Cultivation", "Corporate Partnerships", "Board Giving",
              "Grant Application"}
      [] campaign_type = "Special" ->
             {"Social Media Challenge", "Peer to Peer", "Email Campaign",
              "Volunteer Fundraising"}
      [] campaign_type = "Program" ->
             {"Grant Application", "Email Campaign", "Direct Mail",
              "Monthly Giving Program"}
      [] campaign_type = "Event" ->
             {"Event", "Peer to Peer", "Social Media Challenge", "Corporate Partnerships"}
      [] OTHER -> {"Direct Mail", "Email Campaign"}

\* the month test the code makes for December (month = 12) and November (month = 11)
IncludesMonth(campaign, month) ==
    \/ MonthOf(campaign.start_date) <= month /\ MonthOf(campaign.end_date) >= month
    \/ /\ MonthOf(campaign.start_date) > MonthOf(campaign.end_date)
       /\ YearOf(campaign.end_date) > YearOf(campaign.start_date)

\* year = max(min(campaign['end_date'].year, 2024), 2021)
SeasonalYear(campaign) == Max(Min(YearOf(campaign.end_date), 2024), 2021)

Appeal(appeal_id, campaign, type, seasonal, start_date, end_date) ==
    [appeal_id |-> appeal_id,
     campaign_id |-> campaign.campaign_id,
     type |-> type,
     seasonal |-> seasonal,
     start_date |-> start_date,
     end_date |-> end_date]

\* the December appeal of a campaign, if it gets one
DecemberAppeals(appeal_id, campaign) ==
    LET december_start == DateOf(SeasonalYear(campaign), 12, 1)
        december_end == DateOf(SeasonalYear(campaign), 12, 31)
    IN  IF /\ IncludesMonth(campaign, 12)
           /\ "Direct Mail" \in RelevantAppealTypes(campaign.type)
           /\ december_start <= campaign.end_date
           /\ december_end >= campaign.start_date
        THEN <<Appeal(appeal_id, campaign, "Direct Mail", "December",
                      december_start, december_end)>>
        ELSE <<>>

\* the Giving Tuesday appeal of a campaign, if it gets one
GivingTuesdayAppeals(appeal_id, campaign) ==
    LET giving_tuesday == DateOf(SeasonalYear(campaign), 11, 30)
    IN  IF /\ IncludesMonth(campaign, 11)
           /\ campaign.type \in {"Annual", "Special", "Program"}
           /\ giving_tuesday <= campaign.end_date
           /\ giving_tuesday >= campaign.start_date
        THEN <<Appeal(appeal_id, campaign, "Giving Tuesday", "Giving Tuesday",
                      giving_tuesday - 7, giving_tuesday + 1)>>
        ELSE <<>>

\* the values random.randint can give for an appeal's duration in days
AppealDurations(appeal_type) ==
    IF appeal_type = "Event" THEN {1}
    ELSE IF appeal_type \in {"Email Campaign", "Giving Tuesday", "Social Media Challenge"}
         THEN 1 .. 14
         ELSE 14 .. 45

RegularAppealStartWholeSteps(campaign, num_appeals, i) ==
    campaign.start_date +
        ((campaign.end_date - campaign.start_date) \div (num_appeals + 1)) * (i + 1)

\* appeal_start of regular appeal i (from 0) of num_appeals
RegularAppealStart(campaign, num_appeals, i) ==
    campaign.start_date +
        ((campaign.end_date - campaign.start_date) * (i + 1)) \div (num_appeals + 1)

\* the regular appeals of a campaign, their types and durations drawn
RegularAppeals(appeal_id, campaign, num_appeals, types, durations) ==
    [i \in 1 .. num_appeals |->
        Appeal(appeal_id + i - 1, campaign, types[i], "Regular",
               RegularAppealStart(campaign, num_appeals, i - 1),
               RegularAppealStart(campaign, num_appeals, i - 1) + durations[i])]

CallGenerateAppeals ==
    /\ pc = "idle"
    /\ Last(done) = "generate_campaigns"
    /\ pc' = "generate_appeals"
    /\ ap' = [appeals |-> <<>>, appeal_id |-> 1, campaign |-> 1]
    /\ UNCHANGED <<done, config, now, funds, constituents, donor_segments, gc,
                   households, hh, cg, campaigns, campaign_funds, appeals,
                   transactions, tx, pledges, pledge_payments, pl, twin,
                   has_pledges, dm>>

\* One iteration of the loop over self.campaigns: the seasonal appeals, then the
\* regular ones.  counts are the values random.randint(2, 4) may give, appealTypes
\* the types random.choice may pick and days the durations random.randint may give.
GenerateAppealsOfCampaign(counts, appealTypes, days) ==
    /\ pc = "generate_appeals"
    /\ ap.campaign <= Len(campaigns)
    /\ LET campaign == campaigns[ap.campaign]
           december == DecemberAppeals(ap.appeal_id, campaign)
           tuesday == GivingTuesdayAppeals(ap.appeal_id + Len(december), campaign)
           seasonal == december \o tuesday
       IN  \E num_appeals \in counts \cap 2 .. 4 :
              \E types \in [1 .. num_appeals ->
                               RelevantAppealTypes(campaign.type) \cap appealTypes] :
                 \E durations \in [1 .. num_appeals -> days] :
                    /\ \A i \in 1 .. num_appeals : durations[i] \in AppealDurations(types[i])
                    /\ ap' = [appeals |->
                                  ap.appeals \o seasonal \o
                                  RegularAppeals(ap.appeal_id + Len(seasonal), campaign,
                                                 num_appeals, types, durations),
                              appeal_id |-> ap.appeal_id + Len(seasonal) + num_appeals,
                              campaign |-> ap.campaign + 1]
    /\ UNCHANGED <<pc, done, config, now, funds, constituents, donor_segments, gc,
                   households, hh, cg, campaigns, campaign_funds, appeals,
                   transactions, tx, pledges, pledge_payments, pl, twin,
                   has_pledges, dm>>

\* self.appeals = appeals, return
GenerateAppealsReturn ==
    /\ pc = "generate_appeals"
    /\ ap.campaign > Len(campaigns)
    /\ appeals' = ap.appeals
    /\ pc' = "idle"
    /\ done' = Append(done, "generate_appeals")
    /\ UNCHANGED <<config, now, funds, constituents, donor_segments, gc, households,
                   hh, cg, campaigns, campaign_funds, ap, transactions, tx, pledges,
                   pledge_payments, pl, twin,
                   has_pledges, dm>>

-----------------------------------------------------------------------------
(* generate_transaction_amount, generate_payment_method,
   select_fund_for_transaction, update_donor_metrics, generate_transactions *)

\* transactions one generate_transactions call may append in the model
MaxTransactions == 3

\* self.giving_patterns, in hundredths
GivingPatterns ==
    [december_weight |-> 30, giving_tuesday_weight |-> 10]

\* self.giving_patterns['appeal_response_rate'].get(appeal['type'], 0.10), in hundredths
BaseResponseRate(appeal_type) ==
    CASE appeal_type = "Direct Mail" -> 15
      [] appeal_type = "Email" -> 8
      [] appeal_type = "Event" -> 25
      [] appeal_type = "Giving Tuesday" -> 20
      [] appeal_type = "Phone" -> 12
      [] appeal_type = "Social Media" -> 5
      [] appeal_type = "Board Giving" -> 80
      [] appeal_type = "Peer to Peer" -> 15
      [] OTHER -> 10

ResponseRateUnboosted(appeal) == BaseResponseRate(appeal.type) * 100

\* response_rate, in ten-thousandths
ResponseRate(appeal) ==
    IF appeal.seasonal = "December"
    THEN BaseResponseRate(appeal.type) * (100 + GivingPatterns.december_weight)
    ELSE IF appeal.seasonal = "Giving Tuesday"
         THEN BaseResponseRate(appeal.type) * (100 + GivingPatterns.giving_tuesday_weight)
         ELSE BaseResponseRate(appeal.type) * 100

\* potential_donors: the positions in self.constituents of those created by appeal_end
PotentialDonors(appeal) ==
    SelectSeq([k \in DOMAIN constituents |-> k],
              LAMBDA k : constituents[k].creation_date <= appeal.end_date)

\* min(int(len(potential_donors) * response_rate * volume_multiplier), len(potential_donors))
NumDonors(appeal) ==
    LET n == Len(PotentialDonors(appeal))
    IN  Min((n * ResponseRate(appeal) * config.transaction_volume_multiplier)
                \div (10000 * 10),
            n)

\* self.donor_segments.get(donor_id, {})
SegmentOf(donor_id) ==
    IF donor_id \in DOMAIN donor_segments
    THEN donor_segments[donor_id]
    ELSE [frequency |-> "One-time", level |-> "Small", giving_trend |-> "Stable",
          cause_affinity |-> <<>>]

\* the fund of the campaign's first row flagged is_primary, 1 when it has none
PrimaryFund(campaign_id) ==
    LET rows == SelectSeq(campaign_funds,
                          LAMBDA cf : cf.campaign_id = campaign_id /\ cf.is_primary)
    IN  IF Len(rows) > 0 THEN rows[1].fund_id ELSE 1

\* frequency_weights, in tenths
FrequencyWeight(frequency) ==
    CASE frequency = "One-time" -> 7
      [] frequency = "Occasional" -> 10
      [] frequency = "Regular" -> 20
      [] frequency = "Loyal" -> 30
      [] OTHER -> 10

\* a donor's selection weight, in tenths
DonorWeight(donor_id, campaign_id) ==
    (IF PrimaryFund(campaign_id) \in Range(SegmentOf(donor_id).cause_affinity)
     THEN 3 ELSE 1) * FrequencyWeight(SegmentOf(donor_id).frequency)

\* random.choices(range(len(potential_donors)), weights, k=num_donors): the
\* constituents drawn, with replacement, among those of positive weight
DonorDraws(appeal) ==
    LET potential_donors == PotentialDonors(appeal)
        drawable == {k \in Range(potential_donors) :
                        DonorWeight(constituents[k].constituent_id, appeal.campaign_id) > 0}
    IN  [1 .. NumDonors(appeal) -> drawable]

\* level_ranges, in dollars
LevelRange(constituent_type, level) ==
    IF constituent_type = "Organization"
    THEN CASE level = "Medium" -> <<501, 2500>>
           [] level = "Major" -> <<2501, 10000>>
           [] level = "Principal" -> <<10001, 100000>>
           [] OTHER -> <<100, 500>>
    ELSE CASE level = "Medium" -> <<101, 500>>
           [] level = "Major" -> <<501, 2500>>
           [] level = "Principal" -> <<2501, 25000>>
           [] OTHER -> <<5, 100>>

\* multipliers.get(appeal_type, 1.0), in tenths
AppealMultiplier(appeal_type) ==
    CASE appeal_type = "Giving Tuesday" -> 13
      [] appeal_type = "Event" -> 15
      [] appeal_type = "Board Giving" -> 20
      [] appeal_type = "Direct Mail" -> 8
      [] appeal_type = "Email" -> 7
      [] appeal_type = "Major Donor Cultivation" -> 30
      [] appeal_type = "Corporate Partnerships" -> 25
      [] appeal_type = "Peer to Peer" -> 9
      [] OTHER -> 10

\* trend_multipliers.get(segment['giving_trend'], 1.0), in tenths
TrendMultiplier(giving_trend) ==
    CASE giving_trend = "Increasing" -> 12
      [] giving_trend = "Decreasing" -> 8
      [] OTHER -> 10

\* money units in a dollar and in a cent
Dollar == 10000

Cent == 100

\* round(numerator / denominator units, 2): the nearest whole cent, halves to even
RoundToCents(numerator, denominator) ==
    LET d == denominator * Cent
        q == numerator \div d
        r == numerator % d
    IN  Cent * (IF 2 * r > d \/ (2 * r = d /\ q % 2 = 1) THEN q + 1 ELSE q)

\* generate_transaction_amount for the value u (in units) that random.uniform drew
TransactionAmount(constituent_id, appeal_type, u) ==
    LET segment == SegmentOf(constituent_id)
        rounded == RoundToCents(u * AppealMultiplier(appeal_type)
                                  * TrendMultiplier(segment.giving_trend), 100)
    IN  (rounded * config.transaction_volume_multiplier) \div 10

\* the values random.uniform(min_amt, max_amt) can draw for a constituent, in units
UniformRange(constituent_id) ==
    LET constituent == constituents[CHOOSE k \in DOMAIN constituents :
                                        constituents[k].constituent_id = constituent_id]
        range == LevelRange(constituent.type, SegmentOf(constituent_id).level)
    IN  range[1] * Dollar .. range[2] * Dollar

GiftAmountHalved(amount, gift_num) == IF gift_num > 0 THEN amount \div 2 ELSE amount

\* amount * 0.7 for the second and third gift of a donor to one appeal
GiftAmount(amount, gift_num) == IF gift_num > 0 THEN (amount * 7) \div 10 ELSE amount

\* generate_payment_method: the methods of positive weight
PaymentMethods(constituent_type, amount) ==
    IF constituent_type = "Organization"
    THEN IF amount >= 5000 * Dollar THEN {"Check", "ACH", "Other"}
         ELSE {"Credit Card", "Check", "ACH", "Other"}
    ELSE IF amount >= 1000 * Dollar THEN {"Credit Card", "Check", "ACH", "Other"}
         ELSE {"Credit Card", "Check", "ACH", "Cash", "Other"}

FundChoicesAlwaysGeneral(campaign_id) == {1}

\* select_fund_for_transaction: the funds random.choices can return
FundChoices(campaign_id) ==
    LET rows == SelectSeq(campaign_funds, LAMBDA cf : cf.campaign_id = campaign_id)
    IN  IF Len(rows) = 0 THEN {1}
        ELSE {rows[k].fund_id : k \in {j \in DOMAIN rows : rows[j].weight > 0}}

TransactionDatesFromStart(appeal) ==
    {appeal.start_date + day_offset :
        day_offset \in 0 .. Max(appeal.end_date - appeal.start_date - 1, 0)}

\* the date of a gift: appeal_end for an Event appeal, else appeal_start plus
\* int(random.triangular(0, days_range, 0.8 * days_range))
TransactionDates(appeal) ==
    LET days_range == appeal.end_date - appeal.start_date
    IN  IF appeal.type = "Event" THEN {appeal.end_date}
        ELSE IF days_range <= 0 THEN {appeal.start_date}
             ELSE {appeal.start_date + day_offset : day_offset \in 0 .. days_range - 1}

UpdateDonorMetricsLastOnly(list, constituent_id, amount, date) ==
    [k \in DOMAIN list |->
        IF list[k].constituent_id = constituent_id
        THEN [list[k] EXCEPT !.lifetime_giving = @ + amount,
                             !.first_gift_date = IF @ = None THEN date ELSE @,
                             !.last_gift_date = date]
        ELSE list[k]]

UpdateDonorMetricsOverwrite(list, constituent_id, amount, date) ==
    [k \in DOMAIN list |->
        IF list[k].constituent_id = constituent_id
        THEN [list[k] EXCEPT !.lifetime_giving = amount,
                             !.first_gift_date = IF @ = None THEN date ELSE @,
                             !.last_gift_date = Max(IF @ = None THEN date ELSE @, date)]
        ELSE list[k]]

\* update_donor_metrics: self.constituents after it
UpdateDonorMetrics(list, constituent_id, amount, date) ==
    LET first == CHOOSE k \in DOMAIN list :
                    /\ list[k].constituent_id = constituent_id
                    /\ \A j \in 1 .. k - 1 : list[j].constituent_id # constituent_id
    IN  IF \E k \in DOMAIN list : list[k].constituent_id = constituent_id
        THEN [list EXCEPT ![first] =
                 [@ EXCEPT !.lifetime_giving = @ + amount,
                           !.first_gift_date = IF @ = None THEN date ELSE @,
                           !.last_gift_date = Max(IF @ = None THEN date ELSE @, date)]]
        ELSE list

CallGenerateTransactions(after) ==
    /\ pc = "idle"
    /\ Last(done) = after
    /\ pc' = "generate_transactions"
    /\ tx' = [transactions |-> <<>>, transaction_id |-> 1, appeal |-> 0,
              response_rate |-> 0, num_donors |-> 0, appeal_donors |-> <<>>,
              num_gifts |-> 0, gift_num |-> 0]
    /\ UNCHANGED <<done, config, now, funds, constituents, donor_segments, gc,
                   households, hh, cg, campaigns, campaign_funds, ap, appeals,
                   transactions, pledges, pledge_payments, pl, twin,
                   has_pledges, dm>>

\* The head of one iteration of the loop over self.appeals: the response rate, the
\* potential donors and the weighted draw of the appeal's donors.  An appeal
\* without potential donors is skipped.
SelectAppealDonors ==
    /\ pc = "generate_transactions"
    /\ tx.appeal_donors = <<>>
    /\ tx.appeal < Len(appeals)
    /\ LET appeal == appeals[tx.appeal + 1]
       IN  IF Len(PotentialDonors(appeal)) = 0
           THEN tx' = [tx EXCEPT !.appeal = @ + 1,
                                 !.response_rate = ResponseRate(appeal),
                                 !.num_donors = NumDonors(appeal)]
           ELSE \E selected \in DonorDraws(appeal) :
                   tx' = [tx EXCEPT !.appeal = @ + 1,
                                    !.response_rate = ResponseRate(appeal),
                                    !.num_donors = NumDonors(appeal),
                                    !.appeal_donors = selected,
                                    !.num_gifts = 0, !.gift_num = 0]
    /\ UNCHANGED <<pc, done, config, now, funds, constituents, donor_segments, gc,
                   households, hh, cg, campaigns, campaign_funds, ap, appeals,
                   transactions, pledges, pledge_payments, pl, twin,
                   has_pledges, dm>>

\* One gift of the appeal's next donor: the draw of num_gifts before the donor's
\* first gift, the date, the fund, the amount, the payment method, the append and
\* the update_donor_metrics call.  uniforms are the values random.uniform may
\* draw, offsets the day offsets random.triangular may, methods the payment
\* methods random.choices may.
GenerateGift(uniforms, offsets, methods) ==
    /\ pc = "generate_transactions"
    /\ tx.appeal_donors # <<>>
    /\ Len(tx.transactions) < MaxTransactions
    /\ LET appeal == appeals[tx.appeal]
           donor == constituents[Head(tx.appeal_donors)]
       IN  \E num_gifts \in IF tx.gift_num = 0 THEN {1, 2, 3} ELSE {tx.num_gifts} :
           \E transaction_date \in
                  {d \in TransactionDates(appeal) : d - appeal.start_date \in offsets} :
           \E fund_id \in FundChoices(appeal.campaign_id) :
           \E u \in {v \in uniforms : v \in UniformRange(donor.constituent_id)} :
              LET amount == GiftAmount(TransactionAmount(donor.constituent_id,
                                                         appeal.type, u),
                                       tx.gift_num)
              IN  \E payment_method \in PaymentMethods(donor.type, amount) \cap methods :
                     /\ tx' = [tx EXCEPT
                                 !.transactions =
                                     Append(@, [transaction_id |-> tx.transaction_id,
                                                constituent_id |-> donor.constituent_id,
                                                appeal_id |-> appeal.appeal_id,
                                                campaign_id |-> appeal.campaign_id,
                                                fund_id |-> fund_id,
                                                date |-> transaction_date,
                                                amount |-> amount,
                                                payment_method |-> payment_method]),
                                 !.transaction_id = @ + 1,
                                 !.num_gifts = num_gifts,
                                 !.gift_num = IF tx.gift_num + 1 < num_gifts
                                              THEN tx.gift_num + 1 ELSE 0,
                                 !.appeal_donors = IF tx.gift_num + 1 < num_gifts
                                                   THEN @ ELSE Tail(@)]
                     /\ constituents' = UpdateDonorMetrics(constituents,
                                                           donor.constituent_id,
                                                           amount, transaction_date)
    /\ UNCHANGED <<pc, done, config, now, funds, donor_segments, gc, households, hh,
                   cg, campaigns, campaign_funds, ap, appeals, transactions, pledges,
                   pledge_payments, pl, twin,
                   has_pledges, dm>>

\* self.transactions = transactions, return
GenerateTransactionsReturn ==
    /\ pc = "generate_transactions"
    /\ tx.appeal_donors = <<>>
    /\ tx.appeal = Len(appeals)
    /\ transactions' = tx.transactions
    /\ pc' = "idle"
    /\ done' = Append(done, "generate_transactions")
    /\ UNCHANGED <<config, now, funds, constituents, donor_segments, gc, households,
                   hh, cg, campaigns, campaign_funds, ap, appeals, tx, pledges,
                   pledge_payments, pl, twin,
                   has_pledges, dm>>

-----------------------------------------------------------------------------
(* The transaction engine: funds, constituents, campaigns, appeals, transactions. *)

\* the default volume multiplier of 1.0; half the constituents are organizations
TransactionConfigs == {Config(NumConstituents, 10, 50, 12)}

\* values random.uniform draws: 57.1234 and 321.9876 dollars
TransactionUniforms == {571234, 3219876}

InitTransactions == \E cfg \in TransactionConfigs : InitWith(cfg, DefaultEndDate)

Next ==
    \/ GenerateFunds
    \/ CallGenerateConstituents
    \/ GenerateConstituent({"F"}, {DateOf(2021, 1, 1)})
    \/ CreateDonorSegment({"Regular"}, {"Small"}, {"Increasing"}, {<<2, 5>>})
    \/ GenerateConstituentsReturn
    \/ CallGenerateCampaigns("generate_constituents")
    \/ GenerateCampaign({"Capital"}, {DateOf(2022, 9, 15)}, {1, 2})
    \/ GenerateCampaignsReturn
    \/ CallGenerateAppeals
    \/ GenerateAppealsOfCampaign({2}, {"Board Giving"}, {14})
    \/ GenerateAppealsReturn
    \/ CallGenerateTransactions("generate_appeals")
    \/ SelectAppealDonors
    \/ GenerateGift(TransactionUniforms, {0, 1}, {"Check"})
    \/ GenerateTransactionsReturn

Spec == InitTransactions /\ [][Next]_vars

\* how many times the method has returned
TimesRun(method) == Cardinality({k \in DOMAIN done : done[k] = method})

\* generate_transactions has run once and returned
TransactionsGeneratedOnce == pc = "idle" /\ TimesRun("generate_transactions") = 1

\* the amounts of the transactions of constituent id c in list, in order
AmountsOf(list, c) ==
    LET own == SelectSeq(list, LAMBDA t : t.constituent_id = c)
    IN  [k \in DOMAIN own |-> own[k].amount]

\* the dates of the transactions of constituent id c in list
DatesOf(list, c) == {list[k].date : k \in {j \in DOMAIN list : list[j].constituent_id = c}}

\* C1: after generate_transactions has run once, every constituent's
\* lifetime_giving is the sum of the amounts of its transactions (0 without any);
\* while it runs, the sum of the amounts of the transactions appended so far.
C1_LifetimeGivingIsSum ==
    /\ TransactionsGeneratedOnce =>
          \A k \in DOMAIN constituents :
              constituents[k].lifetime_giving =
                  SumSeq(AmountsOf(transactions, constituents[k].constituent_id))
    /\ pc = "generate_transactions" /\ TimesRun("generate_transactions") = 0 =>
          \A k \in DOMAIN constituents :
              constituents[k].lifetime_giving =
                  SumSeq(AmountsOf(tx.transactions, constituents[k].constituent_id))

\* a constituent with a first and a reduced repeat gift, another with none
C1_Witness ==
    /\ TransactionsGeneratedOnce
    /\ \E k \in DOMAIN constituents :
          LET amounts == AmountsOf(transactions, constituents[k].constituent_id)
          IN  Len(amounts) >= 2 /\ amounts[1] # amounts[2]
    /\ \E k \in DOMAIN constituents :
          AmountsOf(transactions, constituents[k].constituent_id) = <<>>

\* C2: after generate_transactions, every transaction's date lies between its
\* constituent's first_gift_date and last_gift_date.
C2_GiftDatesBracketTransactions ==
    TransactionsGeneratedOnce =>
        \A k \in DOMAIN constituents :
            \A d \in DatesOf(transactions, constituents[k].constituent_id) :
                /\ constituents[k].first_gift_date <= d
                /\ d <= constituents[k].last_gift_date

\* C3: in every state, a constituent's first_gift_date and last_gift_date are
\* both unset or both set, and then first_gift_date <= last_gift_date.
C3_FirstNotAfterLast ==
    \A k \in DOMAIN constituents :
        /\ (constituents[k].first_gift_date = None) = (constituents[k].last_gift_date = None)
        /\ constituents[k].first_gift_date <= constituents[k].last_gift_date

\* generation is under way and a constituent has given on two different days
C3_Witness ==
    /\ pc = "generate_transactions"
    /\ \E k \in DOMAIN constituents :
          /\ constituents[k].first_gift_date # None
          /\ constituents[k].first_gift_date < constituents[k].last_gift_date
          /\ Cardinality(DatesOf(tx.transactions, constituents[k].constituent_id)) >= 2

\* the funds of the campaign_funds rows of campaign id c
FundsOfCampaign(c) == {campaign_funds[k].fund_id : k \in FundRowsOf(c)}

-----------------------------------------------------------------------------
(* generate_pledges *)

\* the keys of donors_with_transactions, in the order the dict received them
DonorsWithTransactions ==
    LET firsts == SelectSeq([k \in DOMAIN transactions |->
                                [at |-> k, id |-> transactions[k].constituent_id]],
                            LAMBDA e : \A j \in 1 .. e.at - 1 :
                                          transactions[j].constituent_id # e.id)
    IN  [k \in DOMAIN firsts |-> firsts[k].id]

\* eligible_donors: the donors with at least 2 gifts
EligibleDonors ==
    SelectSeq(DonorsWithTransactions, LAMBDA id : Len(AmountsOf(transactions, id)) >= 2)

\* num_pledge_donors = int(len(eligible_donors) * self.pledge_percentage)
NumPledgeDonors == (Len(EligibleDonors) * config.pledge_percentage) \div 100

\* frequency_mapping.get(segment['frequency'], ['Annual'])
PledgeFrequencies(frequency) ==
    CASE frequency = "One-time" -> {"Annual"}
      [] frequency = "Occasional" -> {"Annual", "Quarterly"}
      [] frequency = "Regular" -> {"Monthly", "Quarterly"}
      [] frequency = "Loyal" -> {"Monthly", "Quarterly", "Annual"}
      [] OTHER -> {"Annual"}

\* the installment counts random.choice draws among
InstallmentChoices(pledge_type) ==
    CASE pledge_type = "Monthly" -> {12, 24, 36}
      [] pledge_type = "Quarterly" -> {4, 8}
      [] OTHER -> {1, 2, 3}

\* the days between two installments
PeriodDays(frequency) ==
    CASE frequency = "Monthly" -> 30
      [] frequency = "Quarterly" -> 90
      [] OTHER -> 365

\* the multiple of the average gift an installment is, in tenths: 1.5, 3, 5
InstallmentFactor(frequency) ==
    CASE frequency = "Monthly" -> 15
      [] frequency = "Quarterly" -> 30
      [] OTHER -> 50

\* installment_amount = round(avg_gift * factor, 2), avg_gift = sum(amounts) / len(amounts)
InstallmentAmount(amounts, frequency) ==
    RoundToCents(SumSeq(amounts) * InstallmentFactor(frequency), Len(amounts) * 10)

TotalAmountWholeDollars(installment_amount, installments) ==
    (RoundToCents(installment_amount * installments, Cent) \div Cent) * Dollar

\* total_amount = round(installment_amount * installments, 2)
TotalAmount(installment_amount, installments) ==
    RoundToCents(installment_amount * installments, 1)

\* the dates fake.date_between can return for start_date; earliest_start when the
\* range is empty and the call raises
PledgeStartDates(donor) ==
    LET earlier_date_1 == donor.creation_date
        earlier_date_2 == IF donor.first_gift_date # None THEN donor.first_gift_date
                          ELSE donor.creation_date
        earliest_start == Max(earlier_date_1, earlier_date_2)
        end_date_limit == config.end_date
    IN  IF earliest_start <= end_date_limit - 90
        THEN earliest_start .. end_date_limit - 90
        ELSE {earliest_start}

\* the campaign ids random.choice draws among: the campaigns active on start_date,
\* every campaign when none is
PledgeCampaigns(start_date) ==
    LET active_campaigns == SelectSeq(campaigns, LAMBDA campaign :
                                /\ campaign.start_date <= start_date
                                /\ start_date <= campaign.end_date)
    IN  IF Len(active_campaigns) = 0
        THEN {campaigns[k].campaign_id : k \in DOMAIN campaigns}
        ELSE {active_campaigns[k].campaign_id : k \in DOMAIN active_campaigns}

PledgeStatusesByStart(start_date, frequency, installments, current_date) ==
    IF start_date > current_date THEN {"Active", "Cancelled"}
    ELSE {"Completed", "Cancelled"}

\* the statuses random.choices draws among, by the pledge's end date
PledgeStatuses(start_date, frequency, installments, current_date) ==
    LET end_date == start_date + PeriodDays(frequency) * installments
    IN  IF end_date > current_date THEN {"Active", "Cancelled"}
        ELSE {"Completed", "Cancelled"}

PaymentsToGenerateElapsedOnly(status, frequency, installments, start_date, current_date, has_payments) ==
    IF status = "Cancelled" /\ ~has_payments THEN {0}
    ELSE IF status = "Active"
         THEN {Max(0, Min((current_date - start_date) \div PeriodDays(frequency),
                          installments))}
         ELSE IF status = "Cancelled" THEN 0 .. Max(1, installments - 1)
              ELSE {installments}

\* payments_to_generate; has_payments is the outcome of random.random() < 0.3,
\* which only a Cancelled pledge draws
PaymentsToGenerate(status, frequency, installments, start_date, current_date, has_payments) ==
    IF status = "Cancelled" /\ ~has_payments THEN {0}
    ELSE IF status = "Active"
         THEN LET elapsed_time == current_date - start_date
                  periods_elapsed == elapsed_time \div PeriodDays(frequency)
              IN  {Max(0, Min(periods_elapsed + 1, installments))}
         ELSE IF status = "Cancelled" THEN 0 .. Max(1, installments - 1)
              ELSE {installments}

\* the payment rows of one pledge; pending is the outcome of random.random() < 0.2
\* for the last payment of an Active pledge
PledgePayments(pledge, payment_id, payments_to_generate, pending) ==
    [i \in 1 .. payments_to_generate |->
        [payment_id |-> payment_id + i - 1,
         pledge_id |-> pledge.pledge_id,
         amount |-> pledge.installment_amount,
         date |-> pledge.start_date + PeriodDays(pledge.frequency) * (i - 1),
         status |-> IF pledge.status = "Active" /\ i = payments_to_generate /\ pending
                    THEN "Pending" ELSE "Completed"]]

\* The early return of generate_pledges: no eligible donor, or none to pledge.
\* self.pledges and self.pledge_payments are not assigned.
GeneratePledgesReturnEmpty ==
    /\ pc = "idle"
    /\ Last(done) = "generate_transactions"
    /\ Len(EligibleDonors) = 0 \/ NumPledgeDonors = 0
    /\ done' = Append(done, "generate_pledges")
    /\ UNCHANGED <<pc, config, now, funds, constituents, donor_segments, gc, households,
                   hh, cg, campaigns, campaign_funds, ap, appeals, transactions, tx,
                   pledges, pledge_payments, pl, twin,
                   has_pledges, dm>>

\* pledge_donors = random.sample(eligible_donors, min(num_pledge_donors, len(eligible_donors)))
CallGeneratePledges ==
    /\ pc = "idle"
    /\ Last(done) = "generate_transactions"
    /\ Len(EligibleDonors) # 0 /\ NumPledgeDonors # 0
    /\ pc' = "generate_pledges"
    /\ \E pledge_donors \in Samples(EligibleDonors, Min(NumPledgeDonors, Len(EligibleDonors))) :
          pl' = [pledges |-> <<>>, pledge_payments |-> <<>>, pledge_id |-> 1,
                 payment_id |-> 1, pledge_donors |-> pledge_donors]
    /\ UNCHANGED <<done, config, now, funds, constituents, donor_segments, gc, households,
                   hh, cg, campaigns, campaign_funds, ap, appeals, transactions, tx,
                   pledges, pledge_payments, twin,
                   has_pledges, dm>>

\* One iteration of the loop over pledge_donors: the pledge and its payments.
\* starts are the dates fake.date_between may return, counts the numbers
\* random.randint may draw for the payments of a Cancelled pledge.
GeneratePledge(starts, counts) ==
    /\ pc = "generate_pledges"
    /\ pl.pledge_donors # <<>>
    /\ LET donor_id == Head(pl.pledge_donors)
           donor == constituents[CHOOSE k \in DOMAIN constituents :
                                    constituents[k].constituent_id = donor_id]
           amounts == AmountsOf(transactions, donor_id)
           segment == IF donor_id \in DOMAIN donor_segments THEN donor_segments[donor_id]
                      ELSE [frequency |-> "One-time", level |-> "Small"]
           current_date == now
       IN  \E pledge_type \in PledgeFrequencies(segment.frequency) :
           \E start_date \in {d \in PledgeStartDates(donor) :
                                 d \in starts \/ Cardinality(PledgeStartDates(donor)) = 1} :
           \E installments \in InstallmentChoices(pledge_type) :
           \E campaign_id \in PledgeCampaigns(start_date) :
           \E status \in PledgeStatuses(start_date, pledge_type, installments, current_date) :
           \E has_payments \in IF status = "Cancelled" THEN BOOLEAN ELSE {TRUE} :
           \E payments_to_generate \in
                  {n \in PaymentsToGenerate(status, pledge_type, installments, start_date,
                                            current_date, has_payments) :
                      status = "Cancelled" /\ has_payments => n \in counts} :
           \E pending \in IF status = "Active" /\ payments_to_generate > 0
                          THEN BOOLEAN ELSE {FALSE} :
              LET installment_amount == InstallmentAmount(amounts, pledge_type)
                  pledge == [pledge_id |-> pl.pledge_id,
                             constituent_id |-> donor_id,
                             campaign_id |-> campaign_id,
                             total_amount |-> TotalAmount(installment_amount, installments),
                             installment_amount |-> installment_amount,
                             start_date |-> start_date,
                             frequency |-> pledge_type,
                             installments |-> installments,
                             status |-> status]
              IN  pl' = [pledges |-> Append(pl.pledges, pledge),
                         pledge_payments |->
                             pl.pledge_payments \o
                             PledgePayments(pledge, pl.payment_id, payments_to_generate,
                                            pending),
                         pledge_id |-> pl.pledge_id + 1,
                         payment_id |-> pl.payment_id + payments_to_generate,
                         pledge_donors |-> Tail(pl.pledge_donors)]
    /\ UNCHANGED <<pc, done, config, now, funds, constituents, donor_segments, gc,
                   households, hh, cg, campaigns, campaign_funds, ap, appeals,
                   transactions, tx, pledges, pledge_payments, twin,
                   has_pledges, dm>>

GeneratePledgesReturnClearing ==
    /\ pc = "generate_pledges"
    /\ pl.pledge_donors = <<>>
    /\ pledges' = pl.pledges
    /\ pledge_payments' = pl.pledge_payments
    /\ transactions' = <<>>
    /\ has_pledges' = TRUE
    /\ pc' = "idle"
    /\ done' = Append(done, "generate_pledges")
    /\ UNCHANGED <<config, now, funds, constituents, donor_segments, gc, households, hh,
                   cg, campaigns, campaign_funds, ap, appeals, tx, pl, twin, dm>>

\* self.pledges = pledges, self.pledge_payments = pledge_payments, return
GeneratePledgesReturn ==
    /\ pc = "generate_pledges"
    /\ pl.pledge_donors = <<>>
    /\ pledges' = pl.pledges
    /\ pledge_payments' = pl.pledge_payments
    /\ has_pledges' = TRUE
    /\ pc' = "idle"
    /\ done' = Append(done, "generate_pledges")
    /\ UNCHANGED <<config, now, funds, constituents, donor_segments, gc, households, hh,
                   cg, campaigns, campaign_funds, ap, appeals, transactions, tx, pl, twin,
                   dm>>

-----------------------------------------------------------------------------
(* The pledge engine: the transaction engine's stages, then generate_pledges. *)

\* every eligible donor pledges
PledgeConfigs == {Config(NumConstituents, 10, 50, 100)}

\* datetime.now().date() of the run: before the end of the data range, and after it
PledgeRunDates == {DateOf(2024, 9, 1), DateOf(2025, 1, 15), DateOf(2026, 11, 4)}

\* dates fake.date_between may return for the start of a pledge
PledgeStarts == {DateOf(2023, 6, 1), DateOf(2024, 10, 2)}

InitPledges == \E cfg \in PledgeConfigs, today \in PledgeRunDates : InitWith(cfg, today)

NextPledges ==
    \/ GenerateFunds
    \/ CallGenerateConstituents
    \/ GenerateConstituent({"F"}, {DateOf(2021, 1, 1)})
    \/ CreateDonorSegment({"Loyal"}, {"Small"}, {"Increasing"}, {<<2, 5>>})
    \/ GenerateConstituentsReturn
    \/ CallGenerateCampaigns("generate_constituents")
    \/ GenerateCampaign({"Capital"}, {DateOf(2022, 9, 15)}, {1})
    \/ GenerateCampaignsReturn
    \/ CallGenerateAppeals
    \/ GenerateAppealsOfCampaign({2}, {"Board Giving"}, {14})
    \/ GenerateAppealsReturn
    \/ CallGenerateTransactions("generate_appeals")
    \/ SelectAppealDonors
    \/ GenerateGift(TransactionUniforms, {0}, {"Check"})
    \/ GenerateTransactionsReturn
    \/ GeneratePledgesReturnEmpty
    \/ CallGeneratePledges
    \/ GeneratePledge(PledgeStarts, {0, 1, 3})
    \/ GeneratePledgesReturn

SpecPledges == InitPledges /\ [][NextPledges]_vars

\* the pledges appended or stored
AllPledges == Range(pl.pledges) \cup Range(pledges)

\* C9: for every pledge, |total_amount - installment_amount * installments| is
\* under a cent, whatever the frequency and the installment count.
C9_TotalIsInstallmentsTimesAmount ==
    \A p \in AllPledges :
        LET difference == p.total_amount - p.installment_amount * p.installments
        IN  -Cent < difference /\ difference < Cent

\* a stored Monthly pledge of 36 installments of an amount that is not whole dollars
C9_Witness ==
    /\ "generate_pledges" \in Range(done)
    /\ \E p \in Range(pledges) :
          /\ p.frequency = "Monthly"
          /\ p.installments = 36
          /\ p.installment_amount % Dollar # 0
          /\ p.total_amount > p.installment_amount

\* end_date of a pledge: its start plus 30, 90 or 365 days for each installment
PledgeEndDate(p) == p.start_date + PeriodDays(p.frequency) * p.installments

\* C23: a pledge is Active only if its end date is after now, Completed only if
\* its end date is not after now; a Cancelled pledge can be either.
C23_StatusMatchesEndDate ==
    \A p \in AllPledges :
        /\ p.status \in {"Active", "Completed", "Cancelled"}
        /\ p.status = "Active" => PledgeEndDate(p) > now
        /\ p.status = "Completed" => PledgeEndDate(p) <= now

\* a stored Completed pledge that started before now, in a run that also could
\* have drawn a longer pledge ending after now
C23_Witness ==
    /\ "generate_pledges" \in Range(done)
    /\ \E p \in Range(pledges) :
          /\ p.status = "Completed"
          /\ p.start_date + PeriodDays(p.frequency) * 36 > now

\* the payment rows appended or stored
AllPledgePayments == Range(pl.pledge_payments) \cup Range(pledge_payments)

\* the number of payment rows of a pledge
PaymentRows(p) == Cardinality({r \in AllPledgePayments : r.pledge_id = p.pledge_id})

\* C24: a Cancelled pledge has between 0 and installments - 1 payment rows, never
\* all its installments, for every installment count, 1 included.
C24_CancelledNeverFullyPaid ==
    \A p \in AllPledges :
        p.status = "Cancelled" => PaymentRows(p) <= p.installments - 1

\* the installment periods that have fully elapsed since the pledge's start, none
\* for a pledge that starts after now
PeriodsElapsed(p) == Max(now - p.start_date, 0) \div PeriodDays(p.frequency)

\* C25 as stated: an Active pledge has as many payment rows as installment periods
\* have fully elapsed since its start, plus one, capped at installments; so it has
\* at least 1 and at most installments rows.
C25_ActivePaymentsElapsedPlusOne ==
    \A p \in AllPledges :
        p.status = "Active" =>
            /\ PaymentRows(p) = Min(PeriodsElapsed(p) + 1, p.installments)
            /\ 1 <= PaymentRows(p)
            /\ PaymentRows(p) <= p.installments

\* C25 amended: an Active pledge that started on or before now has as many payment
\* rows as periods have fully elapsed, plus one, capped at installments, so 1 to
\* installments rows; an Active pledge that starts after now has no payment row.
C25_ActivePaymentsOnceStarted ==
    \A p \in AllPledges :
        p.status = "Active" =>
            IF p.start_date <= now
            THEN /\ PaymentRows(p) = Min(PeriodsElapsed(p) + 1, p.installments)
                 /\ 1 <= PaymentRows(p)
                 /\ PaymentRows(p) <= p.installments
            ELSE PaymentRows(p) = 0

\* an Active pledge with several periods elapsed and installments still to come
C25_Witness ==
    \E p \in AllPledges :
        /\ p.status = "Active"
        /\ p.start_date <= now
        /\ PeriodsElapsed(p) >= 1
        /\ PaymentRows(p) = PeriodsElapsed(p) + 1
        /\ PaymentRows(p) < p.installments

-----------------------------------------------------------------------------
(* Two runs of generate_constituents with the same seed and configuration.     *)
(* Faker.seed(12345) and random.seed(12345) fix the draws of fake and random,  *)
(* so both runs get the same creation_date and cause_affinity; np.random is    *)
(* not seeded, so each run draws its own gender.                               *)

\* One iteration of the loops of generate_constituents in each of the two runs.
GenerateConstituentInBothRuns(genders, dates) ==
    /\ pc = "generate_constituents"
    /\ gc.generated < config.num_constituents
    /\ \E creation_date \in dates, gender \in genders, twin_gender \in genders :
          /\ creation_date \in config.start_date .. config.end_date
          /\ constituents' =
                Append(constituents,
                       NewConstituent(constituents,
                                      gc.generated < NumOrganizations(config.num_constituents),
                                      gender, creation_date))
          /\ twin' =
                Append(twin,
                       NewConstituent(twin,
                                      gc.generated < NumOrganizations(config.num_constituents),
                                      twin_gender, creation_date))
    /\ gc' = [gc EXCEPT !.generated = @ + 1]
    /\ UNCHANGED <<pc, done, config, now, funds, donor_segments, households, hh,
                   cg, campaigns, campaign_funds, ap, appeals, transactions, tx, pledges,
                   pledge_payments, pl, has_pledges, dm>>

\* one organization, the others individuals
TwoRunsConfigs == {Config(NumConstituents + 1, 10, 34, 12)}

InitTwoRuns == \E cfg \in TwoRunsConfigs : InitWith(cfg, DefaultEndDate)

NextTwoRuns ==
    \/ GenerateFunds
    \/ CallGenerateConstituents
    \/ GenerateConstituentInBothRuns(Genders, {DateOf(2021, 1, 1), DateOf(2023, 7, 4)})
    \/ CreateDonorSegment({"Regular"}, {"Small"}, {"Stable", "Increasing"}, {<<1, 2>>})
    \/ GenerateConstituentsReturn

SpecTwoRuns == InitTwoRuns /\ [][NextTwoRuns]_vars

\* C10: two runs with the same seed and the same configuration produce the same
\* constituents table.
C10_SameSeedSameTables ==
    "generate_constituents" \in Range(done) => twin = constituents

-----------------------------------------------------------------------------
(* generate_all_data: the stages in order, then the dictionary of tables. *)

\* The return statement of generate_all_data.  The dictionary names
\* donor_metrics_df, which no statement binds (the call of generate_donor_metrics
\* is commented out), so building it raises NameError and nothing is returned.
GenerateAllDataReturn ==
    /\ pc = "idle"
    /\ Last(done) = "generate_pledges"
    /\ pc' = "NameError"
    /\ UNCHANGED <<done, config, now, funds, constituents, donor_segments, gc,
                   households, hh, cg, campaigns, campaign_funds, ap, appeals,
                   transactions, tx, pledges, pledge_payments, pl, twin, has_pledges, dm>>

InitAllData == \E cfg \in PledgeConfigs, today \in PledgeRunDates : InitWith(cfg, today)

NextAllData ==
    \/ GenerateFunds
    \/ CallGenerateConstituents
    \/ GenerateConstituent({"F"}, {DateOf(2021, 1, 1)})
    \/ CreateDonorSegment({"Loyal"}, {"Small"}, {"Increasing"}, {<<2, 5>>})
    \/ GenerateConstituentsReturn
    \/ CallGenerateHouseholds
    \/ GenerateHouseholdsStep
    \/ GenerateHouseholdsReturn
    \/ CallGenerateCampaigns("generate_households")
    \/ GenerateCampaign({"Capital"}, {DateOf(2022, 9, 15)}, {1})
    \/ GenerateCampaignsReturn
    \/ CallGenerateAppeals
    \/ GenerateAppealsOfCampaign({2}, {"Board Giving"}, {14})
    \/ GenerateAppealsReturn
    \/ CallGenerateTransactions("generate_appeals")
    \/ SelectAppealDonors
    \/ GenerateGift(TransactionUniforms, {0}, {"Check"})
    \/ GenerateTransactionsReturn
    \/ GeneratePledgesReturnEmpty
    \/ CallGeneratePledges
    \/ GeneratePledge(PledgeStarts, {0, 1, 3})
    \/ GeneratePledgesReturn
    \/ GenerateAllDataReturn

SpecAllData == InitAllData /\ [][NextAllData]_vars

\* C11: a full run of generate_all_data with constituents and campaigns does not
\* raise: it ends with the dictionary of the ten tables.
C11_FullRunDoesNotRaise == pc # "NameError"

-----------------------------------------------------------------------------
(* generate_donor_metrics *)

\* min(transaction_dates)
MinDate(dates) == CHOOSE d \in dates : \A e \in dates : d <= e

\* max(transaction_dates)
MaxDate(dates) == CHOOSE d \in dates : \A e \in dates : d >= e

\* max(t['amount'] for t in donor_transactions)
LargestGift(amounts) ==
    CHOOSE a \in Range(amounts) : \A b \in Range(amounts) : a >= b

\* gifts_by_year.get(year, 0)
GivingOfYear(list, constituent_id, year) ==
    SumSeq(AmountsOf(SelectSeq(list, LAMBDA t : YearOf(t.date) = year), constituent_id))

DonorLevel(lifetime_giving) ==
    IF lifetime_giving >= 25000 * Dollar THEN "Principal"
    ELSE IF lifetime_giving >= 5000 * Dollar THEN "Major"
    ELSE IF lifetime_giving >= 1000 * Dollar THEN "Mid-level"
    ELSE "General"

RetentionStatus(dates, current_year) ==
    LET has_current_year_gift == \E d \in dates : YearOf(d) = current_year
        has_previous_year_gift == \E d \in dates : YearOf(d) = current_year - 1
        years_lapsed == current_year - YearOf(MaxDate(dates))
    IN  IF has_current_year_gift /\ has_previous_year_gift THEN "Retained"
        ELSE IF has_current_year_gift THEN "Reactivated"
        ELSE IF has_previous_year_gift THEN "Lapsed"
        ELSE IF years_lapsed <= 1 THEN "New/Recent"
        ELSE IF years_lapsed <= 3 THEN "Lapsed"
        ELSE "Deeply Lapsed"

\* next((h['household_id'] for h in self.households
\*       if h['primary_constituent_id'] == constituent_id), None)
MetricsHousehold(constituent_id) ==
    LET own == SelectSeq(households, LAMBDA h : h.primary_constituent_id = constituent_id)
    IN  IF Len(own) = 0 THEN None ELSE own[1].household_id

\* the metrics row of a constituent with transactions
DonorMetrics(constituent_id, current_year) ==
    LET amounts == AmountsOf(transactions, constituent_id)
        dates == DatesOf(transactions, constituent_id)
        donor_pledges == SelectSeq(pledges, LAMBDA p : p.constituent_id = constituent_id)
    IN  [constituent_id |-> constituent_id,
         first_gift_date |-> MinDate(dates),
         last_gift_date |-> MaxDate(dates),
         lifetime_gifts |-> Len(amounts),
         lifetime_giving |-> SumSeq(amounts),
         largest_gift |-> LargestGift(amounts),
         donor_level |-> DonorLevel(SumSeq(amounts)),
         retention_status |-> RetentionStatus(dates, current_year),
         has_open_pledge |-> \E k \in DOMAIN donor_pledges : donor_pledges[k].status = "Active",
         household_id |-> MetricsHousehold(constituent_id),
         giving |-> [year \in EpochYear .. current_year |->
                        GivingOfYear(transactions, constituent_id, year)]]

CallGenerateDonorMetrics ==
    /\ pc = "idle"
    /\ Last(done) = "generate_pledges"
    /\ pc' = "generate_donor_metrics"
    /\ dm' = [donor_metrics |-> <<>>, constituent |-> 0]
    /\ UNCHANGED <<done, config, now, funds, constituents, donor_segments, gc,
                   households, hh, cg, campaigns, campaign_funds, ap, appeals,
                   transactions, tx, pledges, pledge_payments, pl, twin, has_pledges>>

\* One iteration of the loop over self.constituents.  It reads self.pledges for
\* every constituent, with or without transactions: AttributeError when
\* generate_pledges has not assigned it.
GenerateDonorMetricsStep ==
    /\ pc = "generate_donor_metrics"
    /\ dm.constituent < Len(constituents)
    /\ LET constituent_id == constituents[dm.constituent + 1].constituent_id
       IN  IF ~has_pledges
           THEN pc' = "AttributeError" /\ UNCHANGED dm
           ELSE /\ pc' = pc
                /\ dm' = [donor_metrics |->
                              IF Len(AmountsOf(transactions, constituent_id)) > 0
                              THEN Append(dm.donor_metrics,
                                          DonorMetrics(constituent_id, YearOf(now)))
                              ELSE dm.donor_metrics,
                          constituent |-> dm.constituent + 1]
    /\ UNCHANGED <<done, config, now, funds, constituents, donor_segments, gc,
                   households, hh, cg, campaigns, campaign_funds, ap, appeals,
                   transactions, tx, pledges, pledge_payments, pl, twin, has_pledges>>

\* return pd.DataFrame(donor_metrics)
GenerateDonorMetricsReturn ==
    /\ pc = "generate_donor_metrics"
    /\ dm.constituent = Len(constituents)
    /\ pc' = "idle"
    /\ done' = Append(done, "generate_donor_metrics")
    /\ UNCHANGED <<config, now, funds, constituents, donor_segments, gc, households, hh,
                   cg, campaigns, campaign_funds, ap, appeals, transactions, tx, pledges,
                   pledge_payments, pl, twin, has_pledges, dm>>

-----------------------------------------------------------------------------
(* The stages in order, generate_donor_metrics after generate_pledges, for a  *)
(* generator without constituents and one with.                                *)

\* no constituents; an organization and an individual; two individuals, who can
\* share a household
DonorMetricsConfigs ==
    {Config(n, 10, 50, 100) : n \in {0, NumConstituents}}
        \cup {Config(NumConstituents, 10, 0, 100)}

InitDonorMetrics ==
    \E cfg \in DonorMetricsConfigs, today \in PledgeRunDates : InitWith(cfg, today)

NextDonorMetrics ==
    \/ GenerateFunds
    \/ CallGenerateConstituents
    \/ GenerateConstituent({"F"}, {DateOf(2021, 1, 1)})
    \/ CreateDonorSegment({"Loyal"}, {"Small"}, {"Increasing"}, {<<2, 5>>})
    \/ GenerateConstituentsReturn
    \/ CallGenerateHouseholds
    \/ GenerateHouseholdsStep
    \/ GenerateHouseholdsReturn
    \/ CallGenerateCampaigns("generate_households")
    \/ GenerateCampaign({"Capital"}, {DateOf(2022, 9, 15)}, {1})
    \/ GenerateCampaignsReturn
    \/ CallGenerateAppeals
    \/ GenerateAppealsOfCampaign({2}, {"Board Giving"}, {14})
    \/ GenerateAppealsReturn
    \/ CallGenerateTransactions("generate_appeals")
    \/ SelectAppealDonors
    \/ GenerateGift(TransactionUniforms, {0}, {"Check"})
    \/ GenerateTransactionsReturn
    \/ GeneratePledgesReturnEmpty
    \/ CallGeneratePledges
    \/ GeneratePledge(PledgeStarts, {0, 1})
    \/ GeneratePledgesReturn
    \/ CallGenerateDonorMetrics
    \/ GenerateDonorMetricsStep
    \/ GenerateDonorMetricsReturn

SpecDonorMetrics == InitDonorMetrics /\ [][NextDonorMetrics]_vars

\* C12: no stage raises on empty inputs: without constituents, without eligible
\* donors for an appeal, or without pledge-eligible donors, generate_households,
\* generate_appeals, generate_transactions, generate_pledges and the
\* generate_donor_metrics that follows all return.
C12_NoStageRaisesOnEmptyInputs == pc # "AttributeError"

\* the stages other than generate_constituents and generate_transactions
ReadOnlyStages == {"generate_households", "generate_campaigns", "generate_appeals",
                   "generate_pledges", "generate_donor_metrics"}

\* lifetime_giving, first_gift_date and last_gift_date of every constituent
GivingAggregates ==
    [k \in DOMAIN constituents |->
        <<constituents[k].lifetime_giving, constituents[k].first_gift_date,
          constituents[k].last_gift_date>>]

\* C26: generate_households, generate_campaigns, generate_appeals,
\* generate_pledges and generate_donor_metrics leave the constituents'
\* lifetime_giving, first_gift_date and last_gift_date and the transactions table
\* unchanged: every step that enters, runs or leaves one of them keeps both.
C26_AggregatesHaveOneWriter ==
    [][(\/ pc \in ReadOnlyStages
        \/ pc' \in ReadOnlyStages
        \/ (done' # done /\ Last(done') \in ReadOnlyStages))
       => (GivingAggregates' = GivingAggregates /\ transactions' = transactions)]_vars

\* the five stages have run, pledges and metrics after gifts were recorded
C26_Witness ==
    /\ pc = "idle"
    /\ ReadOnlyStages \subseteq Range(done)
    /\ Last(done) = "generate_donor_metrics"
    /\ pledges # <<>>
    /\ dm.donor_metrics # <<>>
    /\ transactions # <<>>
    /\ \E k \in DOMAIN constituents : constituents[k].lifetime_giving > 0

\* the household rows of a constituent: those whose constituent_id is its id
HouseholdRowsOf(constituent_id) ==
    {h \in Range(households) : h.constituent_id = constituent_id}

\* C30: for every Individual with a transaction, the household_id of its
\* donor-metrics row is the id of the household it belongs to in the households
\* table, as the household's primary member or as another member.
C30_MetricsHouseholdIsOwn ==
    \A row \in Range(dm.donor_metrics) :
        (\E k \in DOMAIN constituents :
            /\ constituents[k].constituent_id = row.constituent_id
            /\ constituents[k].type = "Individual") =>
            \E h \in HouseholdRowsOf(row.constituent_id) : row.household_id = h.household_id

-----------------------------------------------------------------------------
(* The appeal stage on its own: funds, campaigns, appeals. *)

\* dates fake.date_between may return for the start of a campaign of every type
AppealCampaignStarts == {DateOf(2021, 3, 1), DateOf(2022, 6, 10), DateOf(2022, 9, 15)}

\* appeal types random.choice may pick: at least one of every campaign type's pool
AppealTypeChoices == {"Direct Mail", "Board Giving", "Peer to Peer", "Event"}

InitAppeals == InitWith(Config(NumConstituents, 10, 0, 12), DefaultEndDate)

NextAppeals ==
    \/ GenerateFunds
    \/ CallGenerateCampaigns("generate_funds")
    \/ GenerateCampaign(CampaignTypes, AppealCampaignStarts, {1})
    \/ GenerateCampaignsReturn
    \/ CallGenerateAppeals
    \/ GenerateAppealsOfCampaign({2, 3, 4}, AppealTypeChoices, {1, 14})
    \/ GenerateAppealsReturn

SpecAppeals == InitAppeals /\ [][NextAppeals]_vars

\* generate_appeals has returned
AppealsGenerated == "generate_appeals" \in Range(done)

\* the appeals of campaign id c whose seasonal field is seasonal
SeasonalAppealsOf(c, seasonal) ==
    {k \in DOMAIN appeals : appeals[k].campaign_id = c /\ appeals[k].seasonal = seasonal}

\* the years in which the campaign's window holds at least one day of the month
OverlapYears(campaign, month) ==
    {y \in YearOf(campaign.start_date) .. YearOf(campaign.end_date) :
        /\ DateOf(y, month, 1) <= campaign.end_date
        /\ DateOf(y, month, MonthLengths(y)[month]) >= campaign.start_date}

\* C13: a campaign whose window overlaps a December and whose appeal pool holds
\* Direct Mail gets exactly one December appeal, every other campaign none.
C13_OneDecemberAppeal ==
    AppealsGenerated =>
        \A k \in DOMAIN campaigns :
            Cardinality(SeasonalAppealsOf(campaigns[k].campaign_id, "December")) =
                IF /\ OverlapYears(campaigns[k], 12) # {}
                   /\ "Direct Mail" \in RelevantAppealTypes(campaigns[k].type)
                THEN 1 ELSE 0

\* C20: every campaign of type Annual, Special or Program whose window overlaps a
\* November gets a Giving Tuesday appeal anchored on November 30 of the overlap
\* year, running from 7 days before to 1 day after that date.
C20_GivingTuesdayAppeal ==
    AppealsGenerated =>
        \A k \in DOMAIN campaigns :
            campaigns[k].type \in {"Annual", "Special", "Program"} =>
                \A y \in OverlapYears(campaigns[k], 11) :
                    \E a \in SeasonalAppealsOf(campaigns[k].campaign_id, "Giving Tuesday") :
                        /\ appeals[a].start_date = DateOf(y, 11, 30) - 7
                        /\ appeals[a].end_date = DateOf(y, 11, 30) + 1

\* the regular appeals of a campaign, in the order generate_appeals appended them
RegularAppealsOf(campaign) ==
    SelectSeq(appeals, LAMBDA a : a.campaign_id = campaign.campaign_id
                                     /\ a.seasonal = "Regular")

\* C21: every campaign gets n regular appeals, 2 <= n <= 4, the i-th starting at
\* campaign start + floor(campaign length * i / (n + 1)) days, so their starts are
\* strictly increasing and lie inside the campaign's window.
C21_RegularAppealStarts ==
    AppealsGenerated =>
        \A k \in DOMAIN campaigns :
            LET campaign == campaigns[k]
                regular == RegularAppealsOf(campaign)
                n == Len(regular)
                length == campaign.end_date - campaign.start_date
            IN  /\ n \in 2 .. 4
                /\ \A i \in 1 .. n :
                      /\ regular[i].start_date =
                             campaign.start_date + (length * i) \div (n + 1)
                      /\ campaign.start_date <= regular[i].start_date
                      /\ regular[i].start_date <= campaign.end_date
                /\ \A i \in 1 .. n - 1 : regular[i].start_date < regular[i + 1].start_date

\* a campaign with 3 regular appeals whose length is no multiple of 4
C21_Witness ==
    /\ AppealsGenerated
    /\ \E k \in DOMAIN campaigns :
          /\ Len(RegularAppealsOf(campaigns[k])) = 3
          /\ (campaigns[k].end_date - campaigns[k].start_date) % 4 # 0

\* the campaign of an appeal
CampaignOf(a) ==
    campaigns[CHOOSE k \in DOMAIN campaigns : campaigns[k].campaign_id = a.campaign_id]

\* C28: every appeal, seasonal or regular, has its whole window inside its
\* campaign's window: campaign start <= appeal start <= appeal end <= campaign end.
C28_AppealInsideCampaign ==
    AppealsGenerated =>
        \A k \in DOMAIN appeals :
            /\ CampaignOf(appeals[k]).start_date <= appeals[k].start_date
            /\ appeals[k].start_date <= appeals[k].end_date
            /\ appeals[k].end_date <= CampaignOf(appeals[k]).end_date

-----------------------------------------------------------------------------
(* Gifts to seasonal and regular appeals: funds, constituents, a Program      *)
(* campaign, its appeals, transactions.                                        *)

\* a volume multiplier of 3.0, individuals only
GiftConfigs == {Config(NumConstituents, 30, 0, 12)}

\* creation dates: the first day of the data range, and a day inside the window
\* of the Giving Tuesday appeal of 2022
GiftCreationDates == {DateOf(2021, 1, 1), DateOf(2022, 11, 28)}

\* values random.uniform draws: 5.1234 and 99.9876 dollars
GiftUniforms == {51234, 999876}

InitGifts == \E cfg \in GiftConfigs : InitWith(cfg, DefaultEndDate)

NextGifts ==
    \/ GenerateFunds
    \/ CallGenerateConstituents
    \/ GenerateConstituent({"F"}, GiftCreationDates)
    \/ CreateDonorSegment({"Regular"}, {"Small"}, {"Increasing"}, {<<2, 5>>})
    \/ GenerateConstituentsReturn
    \/ CallGenerateCampaigns("generate_constituents")
    \/ GenerateCampaign({"Program"}, {DateOf(2022, 6, 10)}, {1})
    \/ GenerateCampaignsReturn
    \/ CallGenerateAppeals
    \/ GenerateAppealsOfCampaign({2}, {"Email Campaign"}, {1})
    \/ GenerateAppealsReturn
    \/ CallGenerateTransactions("generate_appeals")
    \/ SelectAppealDonors
    \/ GenerateGift(GiftUniforms, {0}, {"Check"})
    \/ GenerateTransactionsReturn

SpecGifts == InitGifts /\ [][NextGifts]_vars

\* the appeal whose donors generate_transactions is working on
CurrentAppeal == appeals[tx.appeal]

\* the appeal of a transaction
AppealOf(t) == appeals[CHOOSE k \in DOMAIN appeals : appeals[k].appeal_id = t.appeal_id]

\* C14: the response rate used for an appeal is the table's rate of its type, 0.10
\* for a type the table lacks, times (1 + december_weight) for a December appeal,
\* times (1 + giving_tuesday_weight) for a Giving Tuesday appeal.
C14_EffectiveResponseRate ==
    pc = "generate_transactions" /\ tx.appeal > 0 =>
        LET boost == IF CurrentAppeal.seasonal = "December"
                     THEN GivingPatterns.december_weight
                     ELSE IF CurrentAppeal.seasonal = "Giving Tuesday"
                          THEN GivingPatterns.giving_tuesday_weight
                          ELSE 0
        IN  tx.response_rate = BaseResponseRate(CurrentAppeal.type) * (100 + boost)

\* a gift was made to the December appeal at 0.15 * 1.3 and generation has come
\* to an appeal of a type the table lacks, at 0.10
C14_Witness ==
    /\ pc = "generate_transactions"
    /\ tx.appeal > 0
    /\ CurrentAppeal.type = "Email Campaign"
    /\ tx.response_rate = 1000
    /\ \E t \in Range(tx.transactions) :
          AppealOf(t).seasonal = "December" /\ AppealOf(t).type = "Direct Mail"

\* the constituent of a transaction
DonorOf(t) ==
    constituents[CHOOSE k \in DOMAIN constituents :
                    constituents[k].constituent_id = t.constituent_id]

\* the transactions appended so far or stored whose donor is an Individual of
\* segment level Small
SmallIndividualGifts ==
    {t \in Range(tx.transactions) \cup Range(transactions) :
        DonorOf(t).type = "Individual" /\ SegmentOf(t.constituent_id).level = "Small"}

\* dollars times the appeal, trend and volume multipliers of a transaction, in units
Scaled(dollars, t) ==
    dollars * (Dollar \div 1000) * AppealMultiplier(AppealOf(t).type)
        * TrendMultiplier(SegmentOf(t.constituent_id).giving_trend)
        * config.transaction_volume_multiplier

AllTransactions == Range(tx.transactions) \cup Range(transactions)

\* C16: no constituent gives before it exists: every transaction's date is on or
\* after the creation_date of its constituent.
C16_NoGiftBeforeCreation ==
    \A t \in AllTransactions : t.date >= DonorOf(t).creation_date

\* round(num / den) as Python's round gives it for num >= 0: to the nearest
\* integer, a tie to the even one
RoundHalfEven(num, den) ==
    LET q == num \div den
        r == num % den
    IN  IF 2 * r < den THEN q
        ELSE IF 2 * r > den THEN q + 1
        ELSE IF q % 2 = 0 THEN q ELSE q + 1

\* C17: for every appeal with at least one eligible constituent, the number of
\* donor draws made equals round(eligible_count * effective_response_rate *
\* volume_multiplier).
C17_DrawsAreRoundedProduct ==
    (pc = "generate_transactions" /\ tx.appeal >= 1
        /\ Len(PotentialDonors(CurrentAppeal)) >= 1)
    => tx.num_donors =
           RoundHalfEven(Len(PotentialDonors(CurrentAppeal)) * tx.response_rate
                             * config.transaction_volume_multiplier,
                         10000 * 10)

\* C19: every transaction amount is a whole number of cents: it is rounded to two
\* decimals after all multipliers, the volume multiplier and the 70% reduction
\* for repeat gifts included.
C19_AmountsAreWholeCents ==
    \A t \in AllTransactions : t.amount % Cent = 0

-----------------------------------------------------------------------------
(* The dates of gifts: an Event campaign with Event and Peer to Peer appeals. *)

\* a volume multiplier of 4.0: 2 donors for an Event appeal, 1 for a Peer to Peer
EventConfigs == {Config(NumConstituents, 40, 0, 12)}

\* the day offsets of a gift from its appeal's start: the first day and the
\* second, which is the end of an Event appeal
EventOffsets == {0, 1}

InitEvents == \E cfg \in EventConfigs : InitWith(cfg, DefaultEndDate)

NextEvents ==
    \/ GenerateFunds
    \/ CallGenerateConstituents
    \/ GenerateConstituent({"F"}, {DateOf(2021, 1, 1)})
    \/ CreateDonorSegment({"Regular"}, {"Small"}, {"Increasing"}, {<<2, 5>>})
    \/ GenerateConstituentsReturn
    \/ CallGenerateCampaigns("generate_constituents")
    \/ GenerateCampaign({"Event"}, {DateOf(2022, 6, 10)}, {1})
    \/ GenerateCampaignsReturn
    \/ CallGenerateAppeals
    \/ GenerateAppealsOfCampaign({2}, {"Event", "Peer to Peer"}, {1, 14})
    \/ GenerateAppealsReturn
    \/ CallGenerateTransactions("generate_appeals")
    \/ SelectAppealDonors
    \/ GenerateGift({51234}, EventOffsets, {"Check"})
    \/ GenerateTransactionsReturn

SpecEvents == InitEvents /\ [][NextEvents]_vars

\* C18: every transaction's date lies within its appeal's window [start_date,
\* end_date]; for an appeal of type Event the date is the appeal's end_date.
C18_DateWithinAppealWindow ==
    \A t \in AllTransactions :
        /\ AppealOf(t).start_date <= t.date
        /\ t.date <= AppealOf(t).end_date
        /\ AppealOf(t).type = "Event" => t.date = AppealOf(t).end_date

\* a gift to an Event appeal and a gift to another appeal dated after its start
C18_Witness ==
    /\ \E t \in AllTransactions : AppealOf(t).type = "Event"
    /\ \E t \in AllTransactions :
          AppealOf(t).type # "Event" /\ t.date > AppealOf(t).start_date

-----------------------------------------------------------------------------
(* Pledges of donors whose gifts fall in the last weeks of the data range: a    *)
(* Program campaign that ends with the range, its December and Giving Tuesday   *)
(* appeals of 2024, then generate_pledges.                                      *)

\* a volume multiplier of 3.0, individuals only, every eligible donor pledges
YearEndConfigs == {Config(NumConstituents, 30, 0, 100)}

\* the last start fake.date_between may return for a 180-day campaign
YearEndCampaignStarts == {DefaultEndDate - 180}

InitYearEnd == \E cfg \in YearEndConfigs : InitWith(cfg, DateOf(2025, 1, 15))

NextYearEnd ==
    \/ GenerateFunds
    \/ CallGenerateConstituents
    \/ GenerateConstituent({"F"}, {DateOf(2021, 1, 1)})
    \/ CreateDonorSegment({"Regular"}, {"Small"}, {"Increasing"}, {<<2, 5>>})
    \/ GenerateConstituentsReturn
    \/ CallGenerateCampaigns("generate_constituents")
    \/ GenerateCampaign({"Program"}, YearEndCampaignStarts, {1})
    \/ GenerateCampaignsReturn
    \/ CallGenerateAppeals
    \/ GenerateAppealsOfCampaign({2}, {"Email Campaign"}, {1})
    \/ GenerateAppealsReturn
    \/ CallGenerateTransactions("generate_appeals")
    \/ SelectAppealDonors
    \/ GenerateGift({51234}, {0}, {"Check"})
    \/ GenerateTransactionsReturn
    \/ GeneratePledgesReturnEmpty
    \/ CallGeneratePledges
    \/ GeneratePledge(PledgeStarts, {0, 1})
    \/ GeneratePledgesReturn

SpecYearEnd == InitYearEnd /\ [][NextYearEnd]_vars

\* C22: every pledge starts on or after its donor's creation_date and
\* first_gift_date, and at least 90 days before the end of the data range, donors
\* whose first gift falls in the last 90 days of the range included.
C22_PledgeStartWithinBounds ==
    \A p \in AllPledges :
        /\ p.start_date >= DonorOf(p).creation_date
        /\ DonorOf(p).first_gift_date # None => p.start_date >= DonorOf(p).first_gift_date
        /\ p.start_date <= config.end_date - 90

-----------------------------------------------------------------------------
(* generate_constituents invoked again on the same generator: it appends to     *)
(* self.constituents and runs create_donor_segments over the whole list.        *)

\* calls of generate_constituents the model makes on one generator
MaxConstituentCalls == 2

\* a further call of generate_constituents, after it has returned
CallGenerateConstituentsAgain ==
    /\ pc = "idle"
    /\ Last(done) = "generate_constituents"
    /\ TimesRun("generate_constituents") < MaxConstituentCalls
    /\ pc' = "generate_constituents"
    /\ gc' = NoGC
    /\ UNCHANGED <<done, config, now, funds, constituents, donor_segments, households,
                   hh, cg, campaigns, campaign_funds, ap, appeals, transactions, tx,
                   pledges, pledge_payments, pl, twin, has_pledges, dm>>

InitSegments == InitWith(Config(NumConstituents, 10, 0, 12), DefaultEndDate)

NextSegments ==
    \/ GenerateFunds
    \/ CallGenerateConstituents
    \/ GenerateConstituent({"F"}, {DateOf(2021, 1, 1)})
    \/ CreateDonorSegment({"Regular", "Loyal"}, {"Small", "Major"}, {"Increasing"},
                          {<<2, 5>>})
    \/ GenerateConstituentsReturn
    \/ CallGenerateConstituentsAgain

SpecSegments == InitSegments /\ [][NextSegments]_vars

\* C27: a stored donor segment never changes: no step, a further
\* generate_constituents call included, alters the frequency, level, giving trend
\* or cause affinity of a constituent that has one.
C27_SegmentAssignedOnce ==
    [][\A id \in DOMAIN donor_segments :
          id \in DOMAIN donor_segments' /\ donor_segments'[id] = donor_segments[id]]_vars

-----------------------------------------------------------------------------
(* generate_transactions invoked again on the same generator: its list and its  *)
(* transaction_id start afresh, the constituents keep what the first run added. *)

\* calls of generate_transactions the model makes on one generator
MaxTransactionCalls == 2

\* a further call of generate_transactions, after it has returned
CallGenerateTransactionsAgain ==
    /\ TimesRun("generate_transactions") < MaxTransactionCalls
    /\ CallGenerateTransactions("generate_transactions")

InitRerun == \E cfg \in TransactionConfigs : InitWith(cfg, DefaultEndDate)

NextRerun ==
    \/ GenerateFunds
    \/ CallGenerateConstituents
    \/ GenerateConstituent({"F"}, {DateOf(2021, 1, 1)})
    \/ CreateDonorSegment({"Regular"}, {"Small"}, {"Increasing"}, {<<2, 5>>})
    \/ GenerateConstituentsReturn
    \/ CallGenerateCampaigns("generate_constituents")
    \/ GenerateCampaign({"Capital"}, {DateOf(2022, 9, 15)}, {1})
    \/ GenerateCampaignsReturn
    \/ CallGenerateAppeals
    \/ GenerateAppealsOfCampaign({2}, {"Board Giving"}, {14})
    \/ GenerateAppealsReturn
    \/ CallGenerateTransactions("generate_appeals")
    \/ SelectAppealDonors
    \/ GenerateGift({571234}, {0}, {"Check"})
    \/ GenerateTransactionsReturn
    \/ CallGenerateTransactionsAgain

SpecRerun == InitRerun /\ [][NextRerun]_vars

\* C29: after a second invocation of generate_transactions, every constituent's
\* lifetime_giving is the sum of the amounts of its transactions in the current
\* transactions table, and the table's transaction ids are 1..N, each once.
C29_RerunKeepsAggregates ==
    (pc = "idle" /\ TimesRun("generate_transactions") = 2) =>
        /\ \A k \in DOMAIN constituents :
              constituents[k].lifetime_giving =
                  SumSeq(AmountsOf(transactions, constituents[k].constituent_id))
        /\ \A i \in DOMAIN transactions : transactions[i].transaction_id = i

====
